---- MODULE Spec2Model ----
(***************************************************************************)
(* Model of the portfolio services of server/services:                     *)
(*   PortfolioOptimizer (portfolio_optimizer.py), the RiskAnalyzer         *)
(*   singleton and the /api/risk-analysis handler (risk_analyzer.py,       *)
(*   run_server.py).                                                       *)
(*                                                                         *)
(* Numbers are fixed point:                                                *)
(*   periodic returns            unit 1e-3                                 *)
(*   expected returns, targets   unit 1e-4                                 *)
(*   covariances                 unit 1e-6                                 *)
(*   weights                     unit 1/Scale                              *)
(* The QP solver (cvxpy + OSQP) is modelled by its contract: a DCP check,  *)
(* then the exact optimum of the problem over a grid of weight vectors     *)
(* that contains every vertex of the constraint polytope, or no value when *)
(* the constraint set is empty.                                            *)
(***************************************************************************)
EXTENDS Integers, Sequences, FiniteSets, TLC

\* ------------------------------------------------------------------------
\* Units and program constants
\* ------------------------------------------------------------------------

\* the weight value 1.0 ("cp.sum(weights) == 1"), in weight units
Scale == 300

\* weights <= 0.4, in weight units
WeightCap == (4 * Scale) \div 10

\* resolution of the solver grid: weights are multiples of 0.2
GridStep == Scale \div 5

\* self.risk_free_rate = 0.06, unit 1e-4
risk_free_rate_init == 600

\* aggressive tier: portfolio_return >= 0.18, unit 1e-4
min_return == 1800

\* conservative tier: sqrt(portfolio_variance) <= 0.15, unit 1e-3
max_risk == 150

\* annualisation factor of load_data
TradingDays == 252

\* tau = 0.025 = 1 / TauInv
TauInv == 40

\* bounds of the model
MaxPoints == 3

Tiers == {"conservative", "moderate", "aggressive"}

\* 2 * risk_aversion of black_litterman: {5, 3, 1.5}
RiskAversion2(risk_tolerance) ==
    CASE risk_tolerance = "conservative" -> 10
      [] risk_tolerance = "moderate" -> 6
      [] risk_tolerance = "aggressive" -> 3

\* ------------------------------------------------------------------------
\* Arithmetic helpers
\* ------------------------------------------------------------------------

RECURSIVE SumRange(_, _, _)
\* s[lo] + ... + s[hi]
SumRange(s, lo, hi) ==
    IF lo > hi THEN 0
    ELSE IF lo = hi THEN s[lo]
    ELSE LET mid == (lo + hi) \div 2
         IN SumRange(s, lo, mid) + SumRange(s, mid + 1, hi)

SumSeq(s) == SumRange(s, 1, Len(s))

RECURSIVE SumFn(_, _)
\* sum of f[x] for x in the finite set S
SumFn(f, S) ==
    IF S = {} THEN 0
    ELSE LET x == CHOOSE y \in S : TRUE IN f[x] + SumFn(f, S \ {x})

\* a numpy array holds values: the sequence s with its entries evaluated
Array(s) == s \o <<>>

\* the function f with its values evaluated
Table(f) == f @@ <<>>

\* np.dot of two vectors
Dot(u, v) == SumSeq(Array([i \in 1..Len(u) |-> u[i] * v[i]]))

\* np.dot(w, np.dot(M, w))
QuadForm(w, M) ==
    SumSeq(Array([i \in 1..Len(w) |-> w[i] * Dot(M[i], w)]))

MinOf(S) == CHOOSE x \in S : \A y \in S : x <= y
MaxOf(S) == CHOOSE x \in S : \A y \in S : x >= y

Abs(x) == IF x < 0 THEN -x ELSE x

\* floor division that also takes a negative divisor
FloorDiv(a, b) == IF b > 0 THEN a \div b ELSE (-a) \div (-b)

RECURSIVE SqrtSearch(_, _, _)
SqrtSearch(n, lo, hi) ==
    IF lo >= hi THEN lo
    ELSE LET mid == (lo + hi + 1) \div 2
         IN IF mid * mid <= n THEN SqrtSearch(n, mid, hi)
            ELSE SqrtSearch(n, lo, mid - 1)

\* np.sqrt on a non-negative fixed-point number: 0 exactly when n = 0
ISqrt(n) ==
    IF n <= 0 THEN 0
    ELSE LET r == SqrtSearch(n, 0, 46340) IN IF r = 0 THEN 1 ELSE r

\* ------------------------------------------------------------------------
\* Values
\* ------------------------------------------------------------------------

\* Python None for a DataFrame / Series / array / optional float
NoData == [columns |-> <<>>, data |-> <<>>]
NoSeries == [index |-> <<>>, values |-> <<>>]
NoValue == <<>>
NoTarget == [num |-> 0, den |-> 0]

Target(x) == [num |-> x, den |-> 1]

\* return matrices offered to load_data: columns are assets, data[i] is the
\* return series of columns[i]
Matrix3 ==
    [columns |-> <<"TCS", "RIL", "GOLD">>,
     data |-> << <<3, -1, 2, 0>>, <<-1, 3, 0, 1>>, <<1, 0, 1, -1>> >>]

Matrix2 ==
    [columns |-> <<"TCS", "RIL">>,
     data |-> << <<3, -1, 2, 0>>, <<-1, 3, 0, 1>> >>]

\* every return is 0.0: all means and all covariances are exactly zero
MatrixFlat ==
    [columns |-> <<"TCS", "RIL", "GOLD">>,
     data |-> << <<0, 0, 0, 0>>, <<0, 0, 0, 0>>, <<0, 0, 0, 0>> >>]

\* the frame built by _generate_sample_data: six assets, one column each
SampleData ==
    [columns |-> <<"TCS", "RIL", "INFY", "HDFCBANK", "GOLD", "CASH">>,
     data |-> << <<2, 0, 0, 0, 0, 0, 0>>,
                 <<0, 2, 0, 0, 0, 0, 0>>,
                 <<0, 0, 3, 0, 0, 0, 0>>,
                 <<0, 0, 0, 1, 0, 0, 0>>,
                 <<0, 0, 0, 0, 1, 0, 0>>,
                 <<0, 0, 0, 0, 0, 1, 0>> >>]

ReturnMatrices == {Matrix3, Matrix2, MatrixFlat}

\* a single asset
MatrixOne == [columns |-> <<"TCS">>, data |-> << <<3, -1, 2, 0>> >>]

\* a single observed period
MatrixShort == [columns |-> <<"TCS", "RIL">>, data |-> << <<3>>, <<-1>> >>]

\* a universe so wide that an equal share is below 1%
WideAssets == Scale \div 2
MatrixWide ==
    [columns |-> Array([i \in 1..WideAssets |-> "A" \o ToString(i)]),
     data |-> Array([i \in 1..WideAssets |->
                  IF i % 2 = 1 THEN <<3, -1, 2, 0>> ELSE <<-1, 3, 0, 1>>])]

\* every frame that load_data is given in the model
AllMatrices ==
    ReturnMatrices \cup {SampleData, MatrixOne, MatrixShort, MatrixWide}

\* ------------------------------------------------------------------------
\* Statistics: returns_data.mean() * 252 and returns_data.cov() * 252
\* ------------------------------------------------------------------------

NPeriods(m) == Len(m.data[1])

\* unit 1e-4
ExpectedReturns(m) ==
    [index |-> m.columns,
     values |-> Array([i \in 1..Len(m.columns) |->
                   (TradingDays * SumSeq(m.data[i]) * 10) \div NPeriods(m)])]

\* a float that is not a number
NaN == "nan"

\* sample covariance (ddof = 1), annualised, unit 1e-6; with a single period
\* the divisor T - 1 is zero and every entry is NaN
CovMatrix(m) ==
    LET T == NPeriods(m)
    IN Array([i \in 1..Len(m.columns) |->
         Array([j \in 1..Len(m.columns) |->
            IF T < 2 THEN NaN
            ELSE (TradingDays * (T * Dot(m.data[i], m.data[j])
                                 - SumSeq(m.data[i]) * SumSeq(m.data[j])))
                   \div (T * (T - 1))])])

\* ------------------------------------------------------------------------
\* State
\* ------------------------------------------------------------------------

VARIABLES
    returns_data,       \* PortfolioOptimizer.returns_data
    expected_returns,   \* PortfolioOptimizer.expected_returns
    cov_matrix,         \* PortfolioOptimizer.cov_matrix
    risk_free_rate,     \* PortfolioOptimizer.risk_free_rate
    solver_converges,   \* whether OSQP converges on problems of the loaded data
    ret,                \* the last call on the optimizer and how it ended
    memo,               \* one earlier optimize_portfolio call, for comparison
    risk_analyzer,      \* the fields of the server's RiskAnalyzer
    requests,           \* the /api/risk-analysis requests being served
    rng,                \* the state of numpy's global random generator
    frame               \* the optimizer call in progress, statement by statement

optimizer_vars ==
    <<returns_data, expected_returns, cov_matrix, risk_free_rate,
      solver_converges, ret, memo, frame>>

server_vars == <<risk_analyzer, requests>>

\* ------------------------------------------------------------------------
\* numpy's global random generator
\* ------------------------------------------------------------------------

\* the seed that every np.random.seed call of the program passes
FixedSeed == 42

\* the generator as the start of the process leaves it
Unseeded == [seed |-> 0, drawn |-> 0]

\* a seed call that leaves the generator as it is
SeedSkipped(g) == g

\* np.random.seed(42): the same generator state whatever it was
Seed(g) == [seed |-> FixedSeed, drawn |-> 0]

\* the generator g after k more draws
Drawn(g, k) == [g EXCEPT !.drawn = @ + k]

\* the i-th next standard-normal draw of g, as a whole score: a function of
\* the seed and of the number of draws made since seeding
Draw(g, i) == ((g.seed + 3 * (g.drawn + i) * (g.drawn + i)) % 5) - 2

\* np.random.normal(mean, std, size) before scaling: size scores
Normal(g, size) == Array([i \in 1..size |-> Draw(g, i)])

\* how a call ends
NoResult == [status |-> "raised"]
Return(v) == [kind |-> "return", exc |-> "", value |-> v]
Raise(e) == [kind |-> "raise", exc |-> e, value |-> NoResult]

NoCall == [op |-> "none", args |-> [none |-> TRUE], outcome |-> Raise("")]

\* no call in progress, and none was followed yet
NoFrame ==
    [pc |-> "idle", op |-> "none", args |-> [none |-> TRUE], solves |-> 0,
     calls |-> 0]
NoMemo == [args |-> [none |-> TRUE], converges |-> TRUE, outcome |-> Raise("")]

Loaded == expected_returns # NoSeries /\ cov_matrix # NoValue

\* the data sets of the model and the estimates load_data derives from them,
\* computed once
DataSets == ReturnMatrices \cup {SampleData}

Estimates ==
    Table([m \in AllMatrices |-> [expected_returns |-> ExpectedReturns(m),
                              cov_matrix |-> CovMatrix(m)]])

\* the optimizer fields m, er, cov, rf are those load_data leaves for a data
\* set of the model
Estimated(m, er, cov, rf) ==
    /\ m \in DataSets
    /\ er = Estimates[m].expected_returns
    /\ cov = Estimates[m].cov_matrix
    /\ rf = risk_free_rate_init

\* ------------------------------------------------------------------------
\* Arguments of the calls
\* ------------------------------------------------------------------------

\* target_return offered to modern_portfolio_theory, unit 1e-4
TargetInputs == {NoTarget, Target(0), Target(1200), Target(1500), Target(1900),
                 Target(3000)}

\* the default market caps of optimize_portfolio, in percent
DefaultMarketCaps ==
    [TCS |-> 25, RIL |-> 20, INFY |-> 15, HDFCBANK |-> 20, GOLD |-> 15,
     CASH |-> 5]

\* market_caps offered to black_litterman
CapInputs ==
    {[TCS |-> 2, RIL |-> 1, GOLD |-> 1],    \* covers Matrix3
     [TCS |-> 1, RIL |-> 1],                \* omits GOLD
     [TCS |-> 2, RIL |-> -1, GOLD |-> 1],   \* a negative value
     [TCS |-> 1, RIL |-> -1, GOLD |-> 0]}   \* sums to zero

\* investor_views offered to black_litterman, in dict order; q has unit 1e-4
NoViews == <<>>
View(a, x) == [asset |-> a, q |-> x]
ViewInputs ==
    {NoViews,
     <<View("TCS", 1500)>>,
     <<View("WIPRO", 1000)>>,
     <<View("TCS", 1500), View("WIPRO", 1000)>>}

\* ------------------------------------------------------------------------
\* The QP solver behind problem.solve(solver=cp.OSQP)
\* ------------------------------------------------------------------------

Solved(w) == [kind |-> "done", exc |-> "", value |-> w]
SolveRaised(e) == [kind |-> "raise", exc |-> e, value |-> NoValue]

GridValues == {k * GridStep : k \in 0..(Scale \div GridStep)}

\* the constraints that both problems share: cp.sum(weights) == 1,
\* weights >= 0, weights <= 0.4
BoxConstraints(w) ==
    /\ SumSeq(w) = Scale
    /\ \A i \in 1..Len(w) : w[i] >= 0
    /\ \A i \in 1..Len(w) : w[i] <= WeightCap

\* candidate weight vectors for n assets
GridOf(n) == {w \in [1..n -> GridValues] : BoxConstraints(w)}

\* the largest universe of the model: the six assets of the sample data
MaxAssets == 6

\* the candidates of every universe size, enumerated once
GridTable == Array([n \in 1..MaxAssets |-> {w : w \in GridOf(n)}])

Grid(n) == GridTable[n]

\* np.ones(n_assets) / n_assets
EqualWeights(n) == Array([i \in 1..n |-> Scale \div n])

\* the constraint list of modern_portfolio_theory
MPTConstraints(w, mu, cov, target_return, risk_tolerance) ==
    /\ BoxConstraints(w)
    /\ risk_tolerance = "conservative" =>
           QuadForm(w, cov) <= max_risk * max_risk * Scale * Scale
    /\ risk_tolerance = "aggressive" => Dot(w, mu) >= min_return * Scale
    /\ target_return # NoTarget =>
           Dot(w, mu) * target_return.den >= target_return.num * Scale

\* The problem follows the DCP rules only with a target (Minimize of a
\* quadratic form) and without the conservative constraint: the Sharpe
\* objective divides by cp.sqrt of a convex expression, and the conservative
\* constraint bounds cp.sqrt of a convex expression from above.
MPTIsDCP(target_return, risk_tolerance) ==
    target_return # NoTarget /\ risk_tolerance # "conservative"

MPTSolve(mu, cov, converges, target_return, risk_tolerance) ==
    IF ~MPTIsDCP(target_return, risk_tolerance) THEN SolveRaised("DCPError")
    ELSE IF ~converges THEN SolveRaised("SolverError")
    ELSE LET F == {w \in Grid(Len(mu)) :
                     MPTConstraints(w, mu, cov, target_return, risk_tolerance)}
         IN IF F = {} THEN Solved(NoValue)
            ELSE LET scored == {<<QuadForm(w, cov), w>> : w \in F}
                     best == MinOf({p[1] : p \in scored})
                 IN Solved((CHOOSE p \in scored : p[1] = best)[2])

\* ------------------------------------------------------------------------
\* PortfolioOptimizer.modern_portfolio_theory
\* ------------------------------------------------------------------------

IndexOf(index, a) == CHOOSE i \in 1..Len(index) : index[i] = a

\* the sparse allocation map: assets with more than 1%
SparseAllocation(index, w) ==
    [a \in {index[i] : i \in {j \in 1..Len(index) : w[j] * 100 > Scale}} |->
        w[IndexOf(index, a)] * 100]

\* the allocation map of the except handler: every asset
FullAllocation(index, w) ==
    [a \in {index[i] : i \in 1..Len(index)} |-> w[IndexOf(index, a)] * 100]

\* float(np.dot(w, mu)), unit 1e-4 / Scale
PortfolioReturn(w, mu) == Dot(w, mu)

\* float(np.sqrt(np.dot(w, np.dot(cov, w)))), unit 1e-3 / Scale
PortfolioRisk(w, cov) == ISqrt(QuadForm(w, cov))

\* (portfolio_return_val - risk_free_rate) / portfolio_risk_val, unit 1e-3
SharpeRatio(r, rf, risk) == ((r - rf * Scale) * 100) \div risk

\* a handler that returns the equal weights as a success
MPTFallbackAsSuccess(er, cov, rf, e) ==
    LET equal_weights == EqualWeights(Len(er.values))
        portfolio_return_val == PortfolioReturn(equal_weights, er.values)
        portfolio_risk_val == PortfolioRisk(equal_weights, cov)
    IN IF portfolio_risk_val = 0 THEN Raise("ZeroDivisionError")
       ELSE Return([algorithm |-> "MPT",
                    weights |-> equal_weights,
                    allocation |-> FullAllocation(er.index, equal_weights),
                    expected_return |-> portfolio_return_val,
                    risk |-> portfolio_risk_val,
                    sharpe_ratio |->
                        SharpeRatio(portfolio_return_val, rf, portfolio_risk_val),
                    status |-> "success",
                    error |-> e])

\* the except handler of modern_portfolio_theory (lines 102-122)
MPTFallback(er, cov, rf, e) ==
    LET n_assets == Len(er.values)
        equal_weights == EqualWeights(n_assets)
        portfolio_return_val == PortfolioReturn(equal_weights, er.values)
        portfolio_risk_val == PortfolioRisk(equal_weights, cov)
    IN IF portfolio_risk_val = 0 THEN Raise("ZeroDivisionError")
       ELSE Return([algorithm |-> "MPT",
                    weights |-> equal_weights,
                    allocation |-> FullAllocation(er.index, equal_weights),
                    expected_return |-> portfolio_return_val,
                    risk |-> portfolio_risk_val,
                    sharpe_ratio |->
                        SharpeRatio(portfolio_return_val, rf, portfolio_risk_val),
                    status |-> "fallback",
                    error |-> e])

MPT(er, cov, rf, converges, target_return, risk_tolerance) ==
    IF er = NoSeries \/ cov = NoValue THEN Raise("ValueError")
    ELSE
      LET n_assets == Len(er.values)
          sol == MPTSolve(er.values, cov, converges, target_return,
                          risk_tolerance)
      IN IF sol.kind = "raise" THEN MPTFallback(er, cov, rf, sol.exc)
         ELSE
           LET optimal_weights ==
                   IF sol.value = NoValue THEN EqualWeights(n_assets)
                   ELSE sol.value
               portfolio_return_val ==
                   PortfolioReturn(optimal_weights, er.values)
               portfolio_risk_val == PortfolioRisk(optimal_weights, cov)
           IN IF portfolio_risk_val = 0
              THEN MPTFallback(er, cov, rf, "ZeroDivisionError")
              ELSE Return([algorithm |-> "MPT",
                           weights |-> optimal_weights,
                           allocation |->
                               SparseAllocation(er.index, optimal_weights),
                           expected_return |-> portfolio_return_val,
                           risk |-> portfolio_risk_val,
                           sharpe_ratio |->
                               SharpeRatio(portfolio_return_val, rf,
                                           portfolio_risk_val),
                           status |-> "success"])

\* the results on the data sets of the model, computed once
MPTResults ==
    Table([k \in DataSets \X BOOLEAN \X TargetInputs \X Tiers |->
          MPT(Estimates[k[1]].expected_returns, Estimates[k[1]].cov_matrix,
              risk_free_rate_init, k[2], k[3], k[4])])

\* modern_portfolio_theory on an optimizer with the fields m, er, cov, rf
MPTOn(m, er, cov, rf, converges, target_return, risk_tolerance) ==
    LET k == <<m, converges, target_return, risk_tolerance>>
    IN IF Estimated(m, er, cov, rf) /\ k \in DOMAIN MPTResults
       THEN MPTResults[k]
       ELSE MPT(er, cov, rf, converges, target_return, risk_tolerance)

modern_portfolio_theory(target_return, risk_tolerance) ==
    MPTOn(returns_data, expected_returns, cov_matrix, risk_free_rate,
          solver_converges, target_return, risk_tolerance)

\* ------------------------------------------------------------------------
\* PortfolioOptimizer.black_litterman
\* ------------------------------------------------------------------------

\* market_caps.get(asset, 0)
DictGet(d, k) == IF k \in DOMAIN d THEN d[k] ELSE 0

\* sum(market_caps.values())
DictSum(d) == SumFn(d, DOMAIN d)

RECURSIVE GCD(_, _)
GCD(a, b) == IF b = 0 THEN Abs(a) ELSE GCD(b, a % Abs(b))

RECURSIVE GCDSeq(_)
GCDSeq(s) == IF s = <<>> THEN 0 ELSE GCD(Head(s), GCDSeq(Tail(s)))

\* M without row 1 and column j
Minor(M, j) ==
    Array([r \in 1..(Len(M) - 1) |->
       Array([c \in 1..(Len(M) - 1) |->
          M[r + 1][IF c < j THEN c ELSE c + 1]])])

RECURSIVE Det(_)
Det(M) ==
    IF Len(M) = 1 THEN M[1][1]
    ELSE SumSeq(Array([j \in 1..Len(M) |->
                   (IF j % 2 = 1 THEN 1 ELSE -1) * M[1][j] * Det(Minor(M, j))]))

\* np.linalg.inv raises LinAlgError("Singular matrix") on M; the test is
\* made on M divided by the common factor of its entries
IsSingular(M) ==
    LET g == GCDSeq(Array([i \in 1..Len(M) |-> GCDSeq(M[i])]))
    IN IF g = 0 THEN TRUE
       ELSE Det(Array([i \in 1..Len(M) |->
                  Array([j \in 1..Len(M) |-> M[i][j] \div g])])) = 0

\* market_weights, in weight units
MarketWeights(index, market_caps) ==
    Array([i \in 1..Len(index) |->
        FloorDiv(DictGet(market_caps, index[i]) * Scale,
                 DictSum(market_caps))])

\* pi = risk_aversion * np.dot(cov, market_weights), unit 1e-6
EquilibriumReturns(cov, market_weights, risk_tolerance) ==
    Array([i \in 1..Len(cov) |->
        (RiskAversion2(risk_tolerance) * Dot(cov[i], market_weights))
            \div (2 * Scale)])

\* rows of the picking matrix P: one row per view, a row of zeros for a view
\* on an asset that is not in the index
PickingMatrix(index, investor_views) ==
    Array([v \in 1..Len(investor_views) |->
       Array([j \in 1..Len(index) |->
          IF index[j] = investor_views[v].asset THEN 1 ELSE 0])])

\* Q, unit 1e-6: zero for a view on an asset that is not in the index
ViewVector(index, investor_views) ==
    Array([v \in 1..Len(investor_views) |->
       IF \E j \in 1..Len(index) : index[j] = investor_views[v].asset
       THEN investor_views[v].q * 100 ELSE 0])

\* the diagonal of omega = diag(P (tau cov) P^T), in units of tau * 1e-6
OmegaDiag(P, cov) ==
    Array([v \in 1..Len(P) |->
       Dot(P[v], Array([j \in 1..Len(cov) |-> Dot(cov[j], P[v])]))])

\* np.linalg.inv(cov_prior) or np.linalg.inv(omega) raises
BlendRaises(P, cov) ==
    \/ \E v \in 1..Len(P) : OmegaDiag(P, cov)[v] = 0
    \/ IsSingular(cov)

\* The posterior of one view on asset k (P = e_k, omega = tau * cov[k][k]):
\*   mu_posterior  = pi + cov[:,k] (Q - pi[k]) / (2 cov[k][k])
\*   cov_posterior = tau (cov - cov[:,k] cov[k,:] / (2 cov[k][k]))
\* which is the value of the two inversions of lines 170-175.
ViewedAsset(P) == CHOOSE k \in 1..Len(P[1]) : P[1][k] = 1

PosteriorReturns(pi, cov, P, Q) ==
    LET k == ViewedAsset(P)
    IN Array([i \in 1..Len(pi) |->
          pi[i] + (cov[i][k] * (Q[1] - pi[k])) \div (2 * cov[k][k])])

\* cov_posterior * TauInv, unit 1e-6
PosteriorCov(cov, P) ==
    LET k == ViewedAsset(P)
    IN Array([i \in 1..Len(cov) |->
         Array([j \in 1..Len(cov) |->
            (2 * cov[k][k] * cov[i][j] - cov[i][k] * cov[j][k])
                \div (2 * cov[k][k])])])

\* utility = portfolio_return - (risk_aversion / 2) * portfolio_variance, for
\* weights in grid steps; scaled by a positive constant
Utility(w, mu, cov, den, risk_tolerance) ==
    LET g == Array([i \in 1..Len(w) |-> w[i] \div GridStep])
    IN 4 * den * (Scale \div GridStep) * Dot(g, mu)
         - RiskAversion2(risk_tolerance) * QuadForm(g, cov)

BLConstraints(w) == BoxConstraints(w)

BLSolve(mu, cov, den, converges, risk_tolerance) ==
    IF ~converges THEN SolveRaised("SolverError")
    ELSE LET F == {w \in Grid(Len(mu)) : BLConstraints(w)}
         IN IF F = {} THEN Solved(NoValue)
            ELSE LET scored == {<<Utility(w, mu, cov, den, risk_tolerance), w>> :
                                  w \in F}
                     best == MaxOf({p[1] : p \in scored})
                 IN Solved((CHOOSE p \in scored : p[1] = best)[2])

\* sqrt of a quadratic form of a matrix kept as den times its value
PortfolioRiskDen(w, cov, den) ==
    IF QuadForm(w, cov) = 0 THEN 0 ELSE ISqrt(QuadForm(w, cov) \div den)

\* the except handler of black_litterman (lines 230-250); market_weights is
\* unbound when the failure came before its assignment
BLFallback(er, cov, rf, bound, market_weights, e) ==
    IF ~bound THEN Raise("UnboundLocalError")
    ELSE
      LET portfolio_return_val == PortfolioReturn(market_weights, er.values)
          portfolio_risk_val == PortfolioRisk(market_weights, cov)
      IN IF portfolio_risk_val = 0 THEN Raise("ZeroDivisionError")
         ELSE Return([algorithm |-> "Black-Litterman",
                      weights |-> market_weights,
                      allocation |-> SparseAllocation(er.index, market_weights),
                      expected_return |-> portfolio_return_val,
                      risk |-> portfolio_risk_val,
                      sharpe_ratio |->
                          SharpeRatio(portfolio_return_val, rf,
                                      portfolio_risk_val),
                      status |-> "fallback",
                      error |-> e])

\* the blending of lines 143-179: the equilibrium returns and, unless an
\* inversion raised, the posterior; den is the divisor that cov carries
\* a blending that hands the sample means to the optimization
BlendOnMeans(er, cov, market_weights, investor_views, risk_tolerance) ==
    LET pi == EquilibriumReturns(cov, market_weights, risk_tolerance)
    IN [raised |-> FALSE, pi |-> pi, mu |-> Array([i \in 1..Len(pi) |->
                                                  er.values[i] * 100]),
        cov |-> cov, den |-> 1]

Blend(er, cov, market_weights, investor_views, risk_tolerance) ==
    LET pi == EquilibriumReturns(cov, market_weights, risk_tolerance)
        P == PickingMatrix(er.index, investor_views)
        Q == ViewVector(er.index, investor_views)
    IN IF investor_views = NoViews
       THEN [raised |-> FALSE, pi |-> pi, mu |-> pi, cov |-> cov, den |-> 1]
       ELSE IF BlendRaises(P, cov)
       THEN [raised |-> TRUE, pi |-> pi, mu |-> pi, cov |-> cov, den |-> 1]
       ELSE [raised |-> FALSE, pi |-> pi,
             mu |-> PosteriorReturns(pi, cov, P, Q),
             cov |-> PosteriorCov(cov, P), den |-> TauInv]

\* what lines 143-199 leave in weights.value, or the exception they raise
BLSolveStep(er, cov, converges, market_weights, views, risk_tolerance) ==
    LET b == Blend(er, cov, market_weights, views, risk_tolerance)
    IN IF b.raised THEN SolveRaised("LinAlgError")
       ELSE BLSolve(b.mu, b.cov, b.den, converges, risk_tolerance)

BL(er, cov, rf, converges, market_caps, investor_views, risk_tolerance) ==
    IF er = NoSeries \/ cov = NoValue THEN Raise("ValueError")
    ELSE IF DictSum(market_caps) = 0
    THEN BLFallback(er, cov, rf, FALSE, NoValue, "ZeroDivisionError")
    ELSE
      LET market_weights == MarketWeights(er.index, market_caps)
          b == Blend(er, cov, market_weights, investor_views, risk_tolerance)
          sol == BLSolveStep(er, cov, converges, market_weights,
                             investor_views, risk_tolerance)
      IN IF sol.kind = "raise"
         THEN BLFallback(er, cov, rf, TRUE, market_weights, sol.exc)
         ELSE
           LET optimal_weights ==
                   IF sol.value = NoValue THEN market_weights ELSE sol.value
               portfolio_return_val ==
                   PortfolioReturn(optimal_weights, b.mu) \div 100
               portfolio_risk_val ==
                   PortfolioRiskDen(optimal_weights, b.cov, b.den)
           IN IF portfolio_risk_val = 0
              THEN BLFallback(er, cov, rf, TRUE, market_weights,
                              "ZeroDivisionError")
              ELSE Return([algorithm |-> "Black-Litterman",
                           weights |-> optimal_weights,
                           allocation |->
                               SparseAllocation(er.index, optimal_weights),
                           expected_return |-> portfolio_return_val,
                           risk |-> portfolio_risk_val,
                           sharpe_ratio |->
                               SharpeRatio(portfolio_return_val, rf,
                                           portfolio_risk_val),
                           equilibrium_returns |-> b.pi,
                           posterior_returns |-> b.mu,
                           status |-> "success"])

\* the results on the data sets of the model, computed once
BLResults ==
    Table([k \in DataSets \X BOOLEAN \X (CapInputs \cup {DefaultMarketCaps})
              \X ViewInputs \X Tiers |->
          BL(Estimates[k[1]].expected_returns, Estimates[k[1]].cov_matrix,
             risk_free_rate_init, k[2], k[3], k[4], k[5])])

\* black_litterman on an optimizer with the fields m, er, cov, rf
BLOn(m, er, cov, rf, converges, market_caps, investor_views, risk_tolerance) ==
    LET k == <<m, converges, market_caps, investor_views, risk_tolerance>>
    IN IF Estimated(m, er, cov, rf) /\ k \in DOMAIN BLResults
       THEN BLResults[k]
       ELSE BL(er, cov, rf, converges, market_caps, investor_views,
               risk_tolerance)

black_litterman(market_caps, investor_views, risk_tolerance) ==
    BLOn(returns_data, expected_returns, cov_matrix, risk_free_rate,
         solver_converges, market_caps, investor_views, risk_tolerance)

\* ------------------------------------------------------------------------
\* PortfolioOptimizer.efficient_frontier
\* ------------------------------------------------------------------------

SeqRange(s) == {s[i] : i \in 1..Len(s)}

\* np.linspace(min_return, max_return, n_points)[i], i from 1
Linspace(lo, hi, n_points, i) ==
    IF n_points = 1 THEN [num |-> lo, den |-> 1]
    ELSE [num |-> lo * (n_points - 1) + (i - 1) * (hi - lo),
          den |-> n_points - 1]

TargetReturns(er, n_points) ==
    Array([i \in 1..n_points |->
        Linspace(MinOf(SeqRange(er.values)), MaxOf(SeqRange(er.values)),
                 n_points, i)])

\* one pass of the loop body: the point appended for a target, if any
FrontierPoint(er, cov, rf, converges, target_return) ==
    LET result == MPT(er, cov, rf, converges, target_return, "moderate")
    IN IF result.kind = "return" /\ result.value.status = "success"
       THEN << [return |-> result.value.expected_return,
                risk |-> result.value.risk,
                sharpe_ratio |-> result.value.sharpe_ratio] >>
       ELSE << >>

RECURSIVE FrontierLoop(_, _, _, _, _, _)
FrontierLoop(er, cov, rf, converges, targets, i) ==
    IF i > Len(targets) THEN << >>
    ELSE FrontierPoint(er, cov, rf, converges, targets[i])
           \o FrontierLoop(er, cov, rf, converges, targets, i + 1)

Frontier(er, cov, rf, converges, n_points) ==
    IF er = NoSeries \/ cov = NoValue
    THEN Raise("ValueError")
    ELSE Return([efficient_frontier |->
                     FrontierLoop(er, cov, rf, converges,
                                  TargetReturns(er, n_points), 1),
                 risk_free_rate |-> rf,
                 status |-> "None"])

\* the results on the data sets of the model, computed once
FrontierResults ==
    Table([k \in DataSets \X BOOLEAN \X (1..MaxPoints) |->
          Frontier(Estimates[k[1]].expected_returns, Estimates[k[1]].cov_matrix,
                   risk_free_rate_init, k[2], k[3])])

efficient_frontier(n_points) ==
    LET k == <<returns_data, solver_converges, n_points>>
    IN IF /\ Estimated(returns_data, expected_returns, cov_matrix,
                       risk_free_rate)
          /\ k \in DOMAIN FrontierResults
       THEN FrontierResults[k]
       ELSE Frontier(expected_returns, cov_matrix, risk_free_rate,
                     solver_converges, n_points)

\* ------------------------------------------------------------------------
\* PortfolioOptimizer.optimize_portfolio
\* ------------------------------------------------------------------------

\* algorithm.upper()
Upper(algorithm) ==
    CASE algorithm \in {"MPT", "mpt"} -> "MPT"
      [] algorithm \in {"Black-Litterman", "BLACK-LITTERMAN"} ->
             "BLACK-LITTERMAN"
      [] OTHER -> algorithm

\* result['investment_amount'] = ...; result['risk_tolerance'] = ...
WithContext(outcome, investment_amount, risk_tolerance) ==
    IF outcome.kind = "raise" THEN outcome
    ELSE Return([k \in DOMAIN outcome.value
                       \cup {"investment_amount", "risk_tolerance"} |->
                   CASE k = "investment_amount" -> investment_amount
                     [] k = "risk_tolerance" -> risk_tolerance
                     [] OTHER -> outcome.value[k]])

\* the optimizer fields after the sample-data check of lines 290-291
\* the generator after _generate_sample_data: seeded at line 313, then one
\* draw for each cell of the frame (lines 336-340)
SampleDraws ==
    Drawn(Seed(Unseeded), Len(SampleData.columns) * NPeriods(SampleData))

DataAfterCheck == IF returns_data = NoData THEN SampleData ELSE returns_data

optimize_portfolio(algorithm, risk_tolerance, investment_amount, converges) ==
    LET m == DataAfterCheck
        er == IF returns_data = NoData
              THEN Estimates[SampleData].expected_returns
              ELSE expected_returns
        cov == IF returns_data = NoData
               THEN Estimates[SampleData].cov_matrix ELSE cov_matrix
    IN IF Upper(algorithm) = "MPT"
       THEN WithContext(MPTOn(m, er, cov, risk_free_rate, converges, NoTarget,
                              risk_tolerance),
                        investment_amount, risk_tolerance)
       ELSE IF Upper(algorithm) = "BLACK-LITTERMAN"
       THEN WithContext(BLOn(m, er, cov, risk_free_rate, converges,
                             DefaultMarketCaps, NoViews, risk_tolerance),
                        investment_amount, risk_tolerance)
       ELSE Raise("ValueError")

\* ------------------------------------------------------------------------
\* Actions of the optimizer
\* ------------------------------------------------------------------------

OptimizerInit ==
    /\ returns_data = NoData
    /\ expected_returns = NoSeries
    /\ cov_matrix = NoValue
    /\ risk_free_rate = risk_free_rate_init
    /\ solver_converges = TRUE
    /\ ret = NoCall
    /\ memo = NoMemo
    /\ frame = NoFrame

\* a load_data that keeps the frame and leaves the estimates for later
LoadDataOnly(m, converges) ==
    /\ returns_data' = m
    /\ solver_converges' = converges
    /\ ret' = [op |-> "load_data", args |-> [returns_data |-> m],
               outcome |-> Return([status |-> "None"])]
    /\ UNCHANGED <<expected_returns, cov_matrix, risk_free_rate, frame, memo,
                   server_vars, rng>>

\* PortfolioOptimizer.load_data
LoadData(m, converges) ==
    /\ returns_data' = m
    /\ expected_returns' = Estimates[m].expected_returns
    /\ cov_matrix' = Estimates[m].cov_matrix
    /\ solver_converges' = converges
    /\ ret' = [op |-> "load_data", args |-> [returns_data |-> m],
               outcome |-> Return([status |-> "None"])]
    /\ UNCHANGED <<risk_free_rate, frame, memo, server_vars, rng>>

CallMPT(target_return, risk_tolerance) ==
    /\ ret' = [op |-> "modern_portfolio_theory",
               args |-> [target_return |-> target_return,
                         risk_tolerance |-> risk_tolerance],
               outcome |-> modern_portfolio_theory(target_return,
                                                   risk_tolerance)]
    /\ UNCHANGED <<returns_data, expected_returns, cov_matrix, risk_free_rate, frame,
                   solver_converges, memo, server_vars, rng>>

\* a black_litterman that keeps its posterior returns as expected_returns
CallBLStoring(market_caps, investor_views, risk_tolerance) ==
    LET outcome == black_litterman(market_caps, investor_views, risk_tolerance)
    IN /\ ret' = [op |-> "black_litterman",
                  args |-> [market_caps |-> market_caps,
                            investor_views |-> investor_views,
                            risk_tolerance |-> risk_tolerance],
                  outcome |-> outcome]
       /\ expected_returns' =
              IF outcome.kind = "return" /\ outcome.value.status = "success"
              THEN [expected_returns EXCEPT !.values =
                       Array([i \in 1..Len(@) |->
                           outcome.value.posterior_returns[i] \div 100])]
              ELSE expected_returns
       /\ UNCHANGED <<returns_data, cov_matrix, risk_free_rate, frame,
                      solver_converges, memo, server_vars, rng>>

CallBL(market_caps, investor_views, risk_tolerance) ==
    /\ ret' = [op |-> "black_litterman",
               args |-> [market_caps |-> market_caps,
                         investor_views |-> investor_views,
                         risk_tolerance |-> risk_tolerance],
               outcome |-> black_litterman(market_caps, investor_views,
                                           risk_tolerance)]
    /\ UNCHANGED <<returns_data, expected_returns, cov_matrix, risk_free_rate, frame,
                   solver_converges, memo, server_vars, rng>>

CallFrontier(n_points) ==
    /\ ret' = [op |-> "efficient_frontier",
               args |-> [n_points |-> n_points],
               outcome |-> efficient_frontier(n_points)]
    /\ UNCHANGED <<returns_data, expected_returns, cov_matrix, risk_free_rate, frame,
                   solver_converges, memo, server_vars, rng>>

AlgorithmInputs == {"MPT", "mpt", "Black-Litterman", "HRP"}
AmountInputs == {1000000, 500000}

\* optimize_portfolio; when no data is loaded it first loads the sample data,
\* on which OSQP converges or not (converges).  keep: remember this call in
\* memo, with the solver behaviour it met, when no call is remembered yet.
CallOptimize(algorithm, risk_tolerance, investment_amount, converges, keep) ==
    LET conv == IF returns_data = NoData THEN converges ELSE solver_converges
        args == [algorithm |-> algorithm, risk_tolerance |-> risk_tolerance,
                 investment_amount |-> investment_amount]
        outcome == optimize_portfolio(algorithm, risk_tolerance,
                                      investment_amount, conv)
    IN /\ returns_data' = DataAfterCheck
       /\ expected_returns' = IF returns_data = NoData
                              THEN Estimates[SampleData].expected_returns
                              ELSE expected_returns
       /\ cov_matrix' = IF returns_data = NoData
                        THEN Estimates[SampleData].cov_matrix
                        ELSE cov_matrix
       /\ solver_converges' = conv
       /\ ret' = [op |-> "optimize_portfolio", args |-> args,
                  outcome |-> outcome]
       /\ memo' = IF keep /\ memo = NoMemo
                  THEN [args |-> args, converges |-> conv,
                        outcome |-> outcome]
                  ELSE memo
       /\ rng' = IF returns_data = NoData THEN SampleDraws ELSE rng
       /\ UNCHANGED <<risk_free_rate, frame, server_vars>>

\* ------------------------------------------------------------------------
\* Rational numbers
\* ------------------------------------------------------------------------

\* n / d in lowest terms, d # 0
Frac(n, d) ==
    LET g == GCD(n, d)
    IN IF d < 0 THEN [num |-> (-n) \div g, den |-> (-d) \div g]
       ELSE [num |-> n \div g, den |-> d \div g]

FracAdd(a, b) == Frac(a.num * b.den + b.num * a.den, a.den * b.den)
FracSub(a, b) == Frac(a.num * b.den - b.num * a.den, a.den * b.den)
FracMul(a, b) ==
    LET g == GCD(a.num, b.den)
        h == GCD(b.num, a.den)
    IN Frac((a.num \div g) * (b.num \div h), (a.den \div h) * (b.den \div g))
FracLeq(a, b) == a.num * b.den <= b.num * a.den

RECURSIVE FracSum(_)
FracSum(s) ==
    IF s = <<>> THEN Frac(0, 1) ELSE FracAdd(Head(s), FracSum(Tail(s)))

\* ------------------------------------------------------------------------
\* DataProcessor.load_stock_data and calculate_returns, as the server uses them
\* ------------------------------------------------------------------------

\* the symbols of the route when the request names no weights
DefaultSymbols == <<"TCS", "RIL", "INFY", "HDFCBANK", "GOLD", "CASH">>

\* the daily returns the data source gives for a symbol, unit 1e-3
SymbolReturns ==
    [TCS |-> <<3, -1, 2, 0>>, RIL |-> <<-1, 3, 0, 1>>,
     INFY |-> <<2, 0, -1, 1>>, HDFCBANK |-> <<0, 2, 1, -2>>,
     GOLD |-> <<1, 0, 1, -1>>, CASH |-> <<0, 0, 0, 0>>]

\* list(portfolio_weights.keys()), or the default symbols for no weights
Symbols(portfolio_weights) ==
    IF DOMAIN portfolio_weights = {} THEN DefaultSymbols
    ELSE SelectSeq(DefaultSymbols, LAMBDA a : a \in DOMAIN portfolio_weights)

\* calculate_returns(load_stock_data(symbols))
StockReturns(symbols) ==
    [columns |-> symbols,
     data |-> Array([i \in 1..Len(symbols) |-> SymbolReturns[symbols[i]]])]

\* the generator after the series of the symbols were generated: seeded at
\* line 99, then one draw for each day of each series (line 132)
StockDraws(symbols) ==
    Drawn(Seed(Unseeded),
          Len(symbols) * (Len(SymbolReturns[symbols[1]]) + 1))

\* ------------------------------------------------------------------------
\* RiskAnalyzer
\* ------------------------------------------------------------------------

\* portfolio_weights is None
NoWeights == [none |-> Frac(0, 1)]

NoAnalyzer == [returns_data |-> NoData, portfolio_weights |-> NoWeights]

\* RiskAnalyzer.load_data: the fields it leaves, and whether it raised
RiskLoadData(ra, returns, portfolio_weights) ==
    LET total_weight == DictSum(portfolio_weights)
        n_assets == Len(returns.columns)
    IN IF DOMAIN portfolio_weights # {}
       THEN IF total_weight = 0
            THEN [ra |-> [ra EXCEPT !.returns_data = returns],
                  exc |-> "ZeroDivisionError"]
            ELSE [ra |-> [returns_data |-> returns,
                          portfolio_weights |->
                              [k \in DOMAIN portfolio_weights |->
                                  Frac(portfolio_weights[k], total_weight)]],
                  exc |-> ""]
       ELSE [ra |-> [returns_data |-> returns,
                     portfolio_weights |->
                         [k \in SeqRange(returns.columns) |->
                             Frac(1, n_assets)]],
             exc |-> ""]

\* self.portfolio_weights.get(col, 0)
WeightOf(ra, col) ==
    IF col \in DOMAIN ra.portfolio_weights THEN ra.portfolio_weights[col]
    ELSE Frac(0, 1)

\* RiskAnalyzer.calculate_portfolio_returns, unit 1e-3
calculate_portfolio_returns(ra) ==
    LET m == ra.returns_data
    IN Array([t \in 1..NPeriods(m) |->
          FracSum(Array([i \in 1..Len(m.columns) |->
              FracMul(WeightOf(ra, m.columns[i]), Frac(m.data[i][t], 1))]))])

RECURSIVE SortFracs(_)
\* the values of s in increasing order
SortFracs(s) ==
    IF s = <<>> THEN <<>>
    ELSE LET i == CHOOSE j \in 1..Len(s) :
                      \A k \in 1..Len(s) : FracLeq(s[j], s[k])
         IN <<s[i]>> \o SortFracs(SubSeq(s, 1, i - 1) \o
                                  SubSeq(s, i + 1, Len(s)))

\* Series.quantile(q) with linear interpolation, q = q_percent / 100
Quantile(s, q_percent) ==
    LET sorted == SortFracs(s)
        pos == (Len(s) - 1) * q_percent
        lo == pos \div 100 + 1
        rest == Frac(pos % 100, 100)
    IN IF lo >= Len(s) THEN sorted[Len(s)]
       ELSE FracAdd(sorted[lo],
                    FracMul(rest, FracSub(sorted[lo + 1], sorted[lo])))

\* the quantile at the confidence level itself, not at its complement
value_at_risk_upper(ra, confidence_percent) ==
    Quantile(calculate_portfolio_returns(ra), confidence_percent)

\* RiskAnalyzer.value_at_risk(confidence_level, method='historical') for a
\* confidence level in percent, unit 1e-3
value_at_risk(ra, confidence_percent) ==
    Quantile(calculate_portfolio_returns(ra), 100 - confidence_percent)

\* portfolio_returns.mean()
MeanReturn(ra) ==
    LET pr == calculate_portfolio_returns(ra)
    IN FracMul(FracSum(pr), Frac(1, Len(pr)))

\* portfolio_returns.std() squared (ddof = 1)
VarReturn(ra) ==
    LET pr == calculate_portfolio_returns(ra)
        mean == MeanReturn(ra)
        sq == Array([t \in 1..Len(pr) |->
                FracMul(FracSub(pr[t], mean), FracSub(pr[t], mean))])
    IN FracMul(FracSum(sq), Frac(1, Len(pr) - 1))

\* floats that are not finite
FracNaN == [num |-> 0, den |-> 0]
IsNaN(x) == x.num = 0 /\ x.den = 0
NaNResult == [kind |-> "nan"]
InfResult == [kind |-> "inf"]

FracDiv(a, b) == FracMul(a, Frac(b.den, b.num))

\* Series.mean() of a series that is not empty
FracMean(s) == FracMul(FracSum(s), Frac(1, Len(s)))

\* the sum of squared deviations from the mean, divided by Len(s) - ddof
FracVar(s, ddof) ==
    LET mean == FracMean(s)
        sq == Array([t \in 1..Len(s) |->
                FracMul(FracSub(s[t], mean), FracSub(s[t], mean))])
    IN FracMul(FracSum(sq), Frac(1, Len(s) - ddof))

\* the analyzer holds a frame and weights
RiskLoaded(ra) ==
    ra.returns_data # NoData /\ ra.portfolio_weights # NoWeights

\* the mean of the returns at or above the VaR
conditional_value_at_risk_upper(ra, confidence_percent) ==
    LET portfolio_returns == calculate_portfolio_returns(ra)
        var == value_at_risk(ra, confidence_percent)
    IN FracMean(SelectSeq(portfolio_returns, LAMBDA x : FracLeq(var, x)))

\* RiskAnalyzer.conditional_value_at_risk for a confidence level in percent
conditional_value_at_risk(ra, confidence_percent) ==
    LET portfolio_returns == calculate_portfolio_returns(ra)
        var == value_at_risk(ra, confidence_percent)
        tail_returns == SelectSeq(portfolio_returns,
                                  LAMBDA x : FracLeq(x, var))
    IN IF Len(tail_returns) > 0 THEN FracMean(tail_returns) ELSE var

\* the size of the sample of value_at_risk(method='monte_carlo'), which is
\* 10000 in the code
VaRSamples == 3

\* value_at_risk with its method: what it returns or raises, and the
\* generator it leaves.  The simulated VaR is mean + std * (the percentile of
\* the scores drawn), kept as the three numbers it is computed from.
VaR(ra, g, confidence_percent, method) ==
    IF ~RiskLoaded(ra) THEN [outcome |-> Raise("ValueError"), rng |-> g]
    ELSE IF method = "historical"
    THEN [outcome |-> Return(value_at_risk(ra, confidence_percent)),
          rng |-> g]
    ELSE IF method = "monte_carlo"
    THEN LET start == Seed(g)
             scores == Normal(start, VaRSamples)
             simulated == Array([i \in 1..VaRSamples |-> Frac(scores[i], 1)])
         IN [outcome |->
                 Return([mean_return |-> MeanReturn(ra),
                         std_return_squared |-> VarReturn(ra),
                         score |-> Quantile(simulated,
                                            100 - confidence_percent)]),
             rng |-> Drawn(start, VaRSamples)]
    ELSE [outcome |-> Raise("ValueError"), rng |-> g]

RECURSIVE FracSumOver(_, _)
\* the sum of f[x] over the finite set S
FracSumOver(f, S) ==
    IF S = {} THEN Frac(0, 1)
    ELSE LET x == CHOOSE y \in S : TRUE
         IN FracAdd(f[x], FracSumOver(f, S \ {x}))

\* a stress test that also counts the shocks of assets that are not held
stress_test_unheld(ra, scenarios) ==
    [scenario_name \in DOMAIN scenarios |->
        LET shocks == scenarios[scenario_name]
        IN FracSumOver(
               [asset \in DOMAIN shocks |->
                   FracMul(IF asset \in DOMAIN ra.portfolio_weights
                           THEN ra.portfolio_weights[asset] ELSE Frac(1, 1),
                           Frac(shocks[asset], 100))],
               DOMAIN shocks)]

\* RiskAnalyzer.stress_test; the shocks of a scenario are in percent
stress_test(ra, scenarios) ==
    [scenario_name \in DOMAIN scenarios |->
        LET shocks == scenarios[scenario_name]
        IN FracSumOver(
               [asset \in DOMAIN ra.portfolio_weights |->
                   FracMul(ra.portfolio_weights[asset],
                           Frac(DictGet(shocks, asset), 100))],
               DOMAIN ra.portfolio_weights)]

\* confidence_levels = [0.95, 0.99], in percent
DefaultLevels == <<95, 99>>

\* the VaR and CVaR entries that lines 284-287 compute: one pair for each
\* level, under the keys var_<int(cl*100)> and cvar_<int(cl*100)>
VarMetrics(ra, portfolio_value, confidence_levels) ==
    LET levels == SeqRange(confidence_levels)
        scaled(x) == FracMul(x, Frac(portfolio_value, 1))
    IN [k \in {"var_" \o ToString(cl) : cl \in levels} \cup
              {"cvar_" \o ToString(cl) : cl \in levels} |->
           LET cl == CHOOSE c \in levels :
                         k \in {"var_" \o ToString(c), "cvar_" \o ToString(c)}
           IN IF k = "var_" \o ToString(cl)
              THEN scaled(value_at_risk(ra, cl))
              ELSE scaled(conditional_value_at_risk(ra, cl))]

\* var_metrics.get(key, 0)
MetricGet(var_metrics, key) ==
    IF key \in DOMAIN var_metrics THEN var_metrics[key] ELSE Frac(0, 1)

\* RiskAnalyzer.generate_risk_report: the VaR and CVaR entries of the report
\* of lines 311-330, in 1e-3 currency units
RiskReport(ra, portfolio_value, confidence_levels) ==
    LET var_metrics == VarMetrics(ra, portfolio_value, confidence_levels)
    IN [portfolio_value |-> portfolio_value,
        var_95 |-> MetricGet(var_metrics, "var_95"),
        var_99 |-> MetricGet(var_metrics, "var_99"),
        cvar_95 |-> MetricGet(var_metrics, "cvar_95")]

\* generate_risk_report with the default confidence levels
generate_risk_report(ra, portfolio_value) ==
    RiskReport(ra, portfolio_value, DefaultLevels)

\* RiskAnalyzer.monte_carlo_simulation: under np.random.seed(42) the results
\* are a function of the three parameters of the simulation, which the model
\* keeps in their place
monte_carlo_simulation(ra, initial_value) ==
    [initial_value |-> initial_value,
     mean_return |-> MeanReturn(ra),
     std_return_squared |-> VarReturn(ra)]

\* monte_carlo_simulation with its generator: the parameters above, the
\* scores drawn for each path (lines 347-352), and the generator it leaves
MonteCarlo(ra, g, time_horizon_days, num_simulations, initial_value) ==
    IF ~RiskLoaded(ra) THEN [outcome |-> Raise("ValueError"), rng |-> g]
    ELSE
      LET start == Seed(g)
          random_returns ==
              Array([i \in 1..num_simulations |->
                  Normal(Drawn(start, (i - 1) * time_horizon_days),
                         time_horizon_days)])
      IN [outcome |->
              Return([initial_value |-> initial_value,
                      time_horizon_days |-> time_horizon_days,
                      num_simulations |-> num_simulations,
                      mean_return |-> MeanReturn(ra),
                      std_return_squared |-> VarReturn(ra),
                      random_returns |-> random_returns]),
          rng |-> Drawn(start, num_simulations * time_horizon_days)]

\* risk_free_rate = 0.06 of the ratios, unit 1e-3
ratio_risk_free_rate == 60

\* RiskAnalyzer.calculate_sortino_ratio: the std of fewer than two values is
\* NaN, NaN == 0 is false, and the ratio over NaN is NaN.  A finite ratio is
\* kept as its numerator and the square of its denominator.
calculate_sortino_ratio(ra) ==
    LET portfolio_returns == calculate_portfolio_returns(ra)
        annual_return ==
            FracMul(FracMean(portfolio_returns), Frac(TradingDays, 1))
        downside_returns ==
            SelectSeq(portfolio_returns, LAMBDA x : x.num < 0)
    IN IF Len(downside_returns) < 2 THEN NaNResult
       ELSE LET downside_variance ==
                    FracMul(FracVar(downside_returns, 1),
                            Frac(TradingDays, 1))
            IN IF downside_variance.num = 0 THEN InfResult
               ELSE [kind |-> "ratio",
                     excess |-> FracSub(annual_return,
                                        Frac(ratio_risk_free_rate, 1)),
                     downside_variance |-> downside_variance]

\* market_returns is None
NoMarket == <<>>

\* self.returns_data.mean(axis=1)
RowMeans(m) ==
    Array([t \in 1..NPeriods(m) |->
        Frac(SumSeq(Array([i \in 1..Len(m.columns) |-> m.data[i][t]])),
             Len(m.columns))])

\* RiskAnalyzer.calculate_beta; a period that market_returns does not cover
\* is NaN there and is dropped by dropna().  np.cov divides by n - 1 and
\* np.var by n; of no value both are NaN, and the covariance of one is NaN.
calculate_beta(ra, market_returns) ==
    LET portfolio_returns == calculate_portfolio_returns(ra)
        market == IF market_returns = NoMarket THEN RowMeans(ra.returns_data)
                  ELSE market_returns
        aligned == SelectSeq(Array([t \in 1..Len(portfolio_returns) |-> t]),
                             LAMBDA t : t <= Len(market) /\ ~IsNaN(market[t]))
        n == Len(aligned)
        daily_rf == Frac(ratio_risk_free_rate, TradingDays)
        portfolio_excess ==
            Array([k \in 1..n |->
                FracSub(portfolio_returns[aligned[k]], daily_rf)])
        market_excess ==
            Array([k \in 1..n |-> FracSub(market[aligned[k]], daily_rf)])
    IN IF n = 0 THEN FracNaN
       ELSE LET market_variance == FracVar(market_excess, 0)
            IN IF market_variance.num = 0 THEN Frac(1, 1)
               ELSE LET pm == FracMean(portfolio_excess)
                        mm == FracMean(market_excess)
                        products ==
                            Array([k \in 1..n |->
                                FracMul(FracSub(portfolio_excess[k], pm),
                                        FracSub(market_excess[k], mm))])
                        covariance ==
                            FracMul(FracSum(products), Frac(1, n - 1))
                    IN FracDiv(covariance, market_variance)

\* ------------------------------------------------------------------------
\* The /api/risk-analysis route on the module-level risk_analyzer
\* ------------------------------------------------------------------------

Requests == {1, 2}

\* time_horizon_days and num_simulations that the route passes
RouteHorizon == 252
RouteSimulations == 1000

\* 'weights' of the request body
WeightInputs ==
    {[TCS |-> 1, RIL |-> 1],
     [TCS |-> 3, RIL |-> 1],
     [GOLD |-> 1, CASH |-> 1],
     [TCS |-> 1, RIL |-> -1]}

\* 'portfolioValue' of the request body
ValueInputs == {1000000, 500000}

NoReport ==
    [portfolio_value |-> 0, var_95 |-> Frac(0, 1), var_99 |-> Frac(0, 1),
     cvar_95 |-> Frac(0, 1)]
NoSimulation ==
    [initial_value |-> 0, mean_return |-> Frac(0, 1),
     std_return_squared |-> Frac(0, 1)]
NoResponse ==
    [code |-> 0, error |-> "", risk_report |-> NoReport,
     monte_carlo_results |-> NoSimulation]

\* a request that has not arrived
NoRequest ==
    [pc |-> "idle", portfolio_weights |-> [none |-> 0], portfolio_value |-> 0,
     risk_report |-> NoReport, response |-> NoResponse]

ServerInit ==
    /\ risk_analyzer = NoAnalyzer
    /\ requests = [r \in Requests |-> NoRequest]

\* lines 87-96: the body is read and the returns of the symbols are loaded
Receive(r, portfolio_weights, portfolio_value) ==
    /\ requests[r].pc = "idle"
    /\ requests' = [requests EXCEPT
                      ![r] = [@ EXCEPT !.pc = "load",
                                       !.portfolio_weights = portfolio_weights,
                                       !.portfolio_value = portfolio_value]]
    /\ UNCHANGED <<risk_analyzer, optimizer_vars, rng>>

\* line 99: risk_analyzer.load_data(returns, portfolio_weights); an exception
\* ends the request in the handler of lines 116-119
LoadStep(r) ==
    /\ requests[r].pc = "load"
    /\ LET loaded == RiskLoadData(risk_analyzer,
                                  StockReturns(Symbols(
                                      requests[r].portfolio_weights)),
                                  requests[r].portfolio_weights)
       IN /\ risk_analyzer' = loaded.ra
          /\ requests' =
               IF loaded.exc # ""
               THEN [requests EXCEPT
                       ![r] = [@ EXCEPT !.pc = "done",
                                        !.response =
                                            [NoResponse EXCEPT
                                               !.code = 500,
                                               !.error = loaded.exc]]]
               ELSE [requests EXCEPT ![r] = [@ EXCEPT !.pc = "report"]]
    /\ rng' = StockDraws(Symbols(requests[r].portfolio_weights))
    /\ UNCHANGED optimizer_vars

\* line 102: risk_report = risk_analyzer.generate_risk_report(portfolio_value)
ReportStep(r) ==
    /\ requests[r].pc = "report"
    /\ requests' =
         [requests EXCEPT
            ![r] = [@ EXCEPT !.pc = "simulate",
                             !.risk_report =
                                 generate_risk_report(
                                     risk_analyzer,
                                     requests[r].portfolio_value)]]
    /\ UNCHANGED <<risk_analyzer, optimizer_vars, rng>>

\* lines 105-114: the simulation is added to the report and the report returned
SimulateStep(r) ==
    /\ requests[r].pc = "simulate"
    /\ requests' =
         [requests EXCEPT
            ![r] = [@ EXCEPT !.pc = "done",
                             !.response =
                                 [code |-> 200, error |-> "",
                                  risk_report |-> requests[r].risk_report,
                                  monte_carlo_results |->
                                      monte_carlo_simulation(
                                          risk_analyzer,
                                          requests[r].portfolio_value)]]]
    /\ rng' = Drawn(Seed(rng), RouteSimulations * RouteHorizon)
    /\ UNCHANGED <<risk_analyzer, optimizer_vars>>

\* ------------------------------------------------------------------------
\* Specifications
\* ------------------------------------------------------------------------

Init == OptimizerInit /\ ServerInit /\ rng = Unseeded

Next ==
    \/ \E m \in ReturnMatrices, c \in BOOLEAN : LoadData(m, c)
    \/ \E n \in 1..MaxPoints : CallFrontier(n)
    \/ \E a \in AlgorithmInputs, r \in Tiers, x \in AmountInputs,
          c \in BOOLEAN : CallOptimize(a, r, x, c, FALSE)
    \/ \E t \in TargetInputs, r \in Tiers : CallMPT(t, r)
    \/ \E mc \in CapInputs, iv \in ViewInputs, r \in Tiers : CallBL(mc, iv, r)

vars == <<optimizer_vars, server_vars, rng>>

\* the calls on one PortfolioOptimizer
Spec == Init /\ [][Next]_vars

\* load_data and optimize_portfolio on one PortfolioOptimizer, with one earlier
\* optimize_portfolio call remembered
NextHistory ==
    \/ \E m \in ReturnMatrices, c \in BOOLEAN : LoadData(m, c)
    \/ \E a \in AlgorithmInputs, r \in Tiers, x \in AmountInputs,
          c \in BOOLEAN, k \in BOOLEAN : CallOptimize(a, r, x, c, k)

SpecHistory == Init /\ [][NextHistory]_vars

\* two /api/risk-analysis requests served by the threads of one server
NextServer ==
    \/ \E r \in Requests, w \in WeightInputs, v \in ValueInputs :
          Receive(r, w, v)
    \/ \E r \in Requests : LoadStep(r)
    \/ \E r \in Requests : ReportStep(r)
    \/ \E r \in Requests : SimulateStep(r)

SpecServer == Init /\ [][NextServer]_vars

\* The solve of modern_portfolio_theory is modelled for estimates without NaN
\* and, where the call reaches the solver, for universes of up to MaxAssets
\* assets.
SolveModelled(target_return, risk_tolerance) ==
    IF returns_data = NoData THEN TRUE
    ELSE IF NPeriods(returns_data) < 2 THEN FALSE
    ELSE IF Len(returns_data.columns) <= MaxAssets THEN TRUE
    ELSE ~(MPTIsDCP(target_return, risk_tolerance) /\ solver_converges)

\* load_data on any frame, and modern_portfolio_theory on what it left
NextEstimate ==
    \/ \E m \in AllMatrices, c \in BOOLEAN : LoadData(m, c)
    \/ \E t \in TargetInputs, r \in Tiers :
          SolveModelled(t, r) /\ CallMPT(t, r)

SpecEstimate == Init /\ [][NextEstimate]_vars

\* ------------------------------------------------------------------------
\* calls on one RiskAnalyzer
\* ------------------------------------------------------------------------

\* a frame whose first column has two equal negative returns
MatrixDown ==
    [columns |-> <<"TCS", "GOLD">>,
     data |-> << <<-1, 2, -1, 3>>, <<-1, 0, -3, 1>> >>]

RiskMatrices == {Matrix2, Matrix3, MatrixDown}

\* portfolio_weights of load_data: None or {} (equal weights), one asset, an
\* asset the frame may lack, unequal weights, weights that sum to zero
RiskWeightInputs ==
    {[a \in {} |-> 0],
     [TCS |-> 1],
     [GOLD |-> 1],
     [TCS |-> 1, RIL |-> 1],
     [TCS |-> 3, RIL |-> 1],
     [TCS |-> 1, WIPRO |-> 1],
     [TCS |-> 1, RIL |-> -1]}

\* confidence levels, in percent
LevelInputs == {90, 95, 99}
MethodInputs == {"historical", "monte_carlo", "bootstrap"}

\* scenarios of stress_test, shocks in percent; the first is the example of
\* the docstring
ScenarioInputs ==
    {[crash |-> [TCS |-> -30, RIL |-> -25, GOLD |-> 10]],
     [crash |-> [TCS |-> -30], rally |-> [RIL |-> 20, INFY |-> 5]]}

\* confidence_levels of generate_risk_report
LevelListInputs == {DefaultLevels, <<90>>, <<95>>}

\* the largest time_horizon_days of the model, and its num_simulations
MaxHorizon == 2
SimulationInputs == {1, 2}

\* market_returns of calculate_beta over the periods of the frame: None, a
\* constant market, the first column of Matrix2, a series that covers only
\* the first period, and a series that covers no period of the frame
MarketInputs ==
    {NoMarket,
     <<Frac(1, 1), Frac(1, 1), Frac(1, 1), Frac(1, 1)>>,
     <<Frac(3, 1), Frac(-1, 1), Frac(2, 1), Frac(0, 1)>>,
     <<Frac(2, 1), FracNaN, FracNaN, FracNaN>>,
     <<FracNaN, FracNaN, FracNaN, FracNaN>>}

\* a call on the analyzer that leaves its fields and the generator alone
RiskCall(op, args, outcome) ==
    /\ ret' = [op |-> op, args |-> args, outcome |-> outcome]
    /\ UNCHANGED <<returns_data, expected_returns, cov_matrix, risk_free_rate, frame,
                   solver_converges, memo, server_vars, rng>>

RiskLoad(returns, portfolio_weights) ==
    LET loaded == RiskLoadData(risk_analyzer, returns, portfolio_weights)
    IN /\ risk_analyzer' = loaded.ra
       /\ ret' = [op |-> "RiskAnalyzer.load_data",
                  args |-> [returns_data |-> returns,
                            portfolio_weights |-> portfolio_weights],
                  outcome |-> IF loaded.exc # "" THEN Raise(loaded.exc)
                              ELSE Return([status |-> "None"])]
       /\ UNCHANGED <<returns_data, expected_returns, cov_matrix,
                      risk_free_rate, frame, solver_converges, memo, requests, rng>>

\* the first call with keep set is kept for comparison, with the analyzer it
\* ran on and the generator it started from; later marks that another
\* simulation was called since
Remember(keep, op, args, outcome) ==
    memo' = IF memo # NoMemo THEN [memo EXCEPT !.later = TRUE]
            ELSE IF keep
            THEN [args |-> [op |-> op, analyzer |-> risk_analyzer,
                            args |-> args],
                  converges |-> TRUE, outcome |-> outcome,
                  rng |-> rng, later |-> FALSE]
            ELSE memo

CallVaR(confidence_percent, method, keep) ==
    LET res == VaR(risk_analyzer, rng, confidence_percent, method)
        args == [confidence_level |-> confidence_percent, method |-> method]
    IN /\ ret' = [op |-> "value_at_risk", args |-> args,
                  outcome |-> res.outcome]
       /\ rng' = res.rng
       /\ Remember(keep, "value_at_risk", args, res.outcome)
       /\ UNCHANGED <<returns_data, expected_returns, cov_matrix,
                      risk_free_rate, frame, solver_converges, server_vars>>

CallCVaR(confidence_percent) ==
    RiskCall("conditional_value_at_risk",
             [confidence_level |-> confidence_percent],
             IF RiskLoaded(risk_analyzer)
             THEN Return(conditional_value_at_risk(risk_analyzer,
                                                   confidence_percent))
             ELSE Raise("ValueError"))

CallStress(scenarios) ==
    RiskCall("stress_test", [scenarios |-> scenarios],
             IF risk_analyzer.portfolio_weights = NoWeights
             THEN Raise("AttributeError")
             ELSE Return(stress_test(risk_analyzer, scenarios)))

CallReport(portfolio_value, confidence_levels) ==
    RiskCall("generate_risk_report",
             [portfolio_value |-> portfolio_value,
              confidence_levels |-> confidence_levels],
             IF RiskLoaded(risk_analyzer)
             THEN Return(RiskReport(risk_analyzer, portfolio_value,
                                    confidence_levels))
             ELSE Raise("ValueError"))

CallMonteCarlo(time_horizon_days, num_simulations, initial_value, keep) ==
    LET res == MonteCarlo(risk_analyzer, rng, time_horizon_days,
                          num_simulations, initial_value)
        args == [time_horizon_days |-> time_horizon_days,
                 num_simulations |-> num_simulations,
                 initial_value |-> initial_value]
    IN /\ ret' = [op |-> "monte_carlo_simulation", args |-> args,
                  outcome |-> res.outcome]
       /\ rng' = res.rng
       /\ Remember(keep, "monte_carlo_simulation", args, res.outcome)
       /\ UNCHANGED <<returns_data, expected_returns, cov_matrix,
                      risk_free_rate, frame, solver_converges, server_vars>>

CallSortino ==
    RiskCall("calculate_sortino_ratio", [none |-> TRUE],
             IF RiskLoaded(risk_analyzer)
             THEN Return(calculate_sortino_ratio(risk_analyzer))
             ELSE Raise("ValueError"))

CallBeta(market_returns) ==
    RiskCall("calculate_beta", [market_returns |-> market_returns],
             IF RiskLoaded(risk_analyzer)
             THEN Return(calculate_beta(risk_analyzer, market_returns))
             ELSE Raise("ValueError"))

\* DataProcessor.load_stock_data of the symbols, served by
\* _generate_synthetic_data
CallLoadStock(symbols) ==
    /\ ret' = [op |-> "load_stock_data", args |-> [symbols |-> symbols],
               outcome |-> Return(StockReturns(symbols))]
    /\ rng' = StockDraws(symbols)
    /\ UNCHANGED <<returns_data, expected_returns, cov_matrix, risk_free_rate, frame,
                   solver_converges, memo, server_vars>>

NextRisk ==
    \/ \E m \in RiskMatrices, w \in RiskWeightInputs : RiskLoad(m, w)
    \/ \E c \in LevelInputs, k \in MethodInputs : CallVaR(c, k, FALSE)
    \/ \E c \in LevelInputs : CallCVaR(c)
    \/ \E sc \in ScenarioInputs : CallStress(sc)
    \/ \E v \in ValueInputs, ls \in LevelListInputs : CallReport(v, ls)
    \/ CallSortino
    \/ \E mr \in MarketInputs : CallBeta(mr)

SpecRisk == Init /\ [][NextRisk]_vars

\* simulations on one analyzer, with other draws in between and one earlier
\* simulation kept
SeedWeightInputs == {[a \in {} |-> 0], [TCS |-> 3, RIL |-> 1]}
SeedSymbols == {<<"TCS", "RIL">>}

NextSeed ==
    \/ \E w \in SeedWeightInputs : RiskLoad(Matrix2, w)
    \/ \E keep \in BOOLEAN : CallVaR(95, "monte_carlo", keep)
    \/ \E h \in {1, MaxHorizon}, n \in SimulationInputs, keep \in BOOLEAN :
          CallMonteCarlo(h, n, 1000000, keep)
    \/ \E sy \in SeedSymbols : CallLoadStock(sy)

SpecSeed == Init /\ [][NextSeed]_vars

\* ------------------------------------------------------------------------
\* RiskAnalyzer.maximum_drawdown
\* ------------------------------------------------------------------------

\* a <= b for fractions above zero, by their quotient
PositiveAtMost(a, b) ==
    LET q == FracDiv(a, b)
    IN q.num <= q.den

\* (1 + portfolio_returns).cumprod() at period t; the returns have unit 1e-3
RECURSIVE CumProd(_, _)
CumProd(s, t) ==
    IF t = 0 THEN Frac(1, 1)
    ELSE FracMul(CumProd(s, t - 1),
                 FracAdd(Frac(1, 1), FracMul(s[t], Frac(1, 1000))))

\* cumulative_returns.expanding().max() at period t
RunningMax(c, t) ==
    c[CHOOSE k \in 1..t : \A j \in 1..t : PositiveAtMost(c[j], c[k])]

\* recovery_time_days: a number of days, or None
Days(n) == [days |-> n]
NoRecovery == [none |-> TRUE]

\* RiskAnalyzer.maximum_drawdown; the index of the frame is daily, period t
\* is day t
maximum_drawdown(ra) ==
    LET portfolio_returns == calculate_portfolio_returns(ra)
        n == Len(portfolio_returns)
        cumulative_returns ==
            Array([t \in 1..n |-> CumProd(portfolio_returns, t)])
        running_max ==
            Array([t \in 1..n |-> RunningMax(cumulative_returns, t)])
        ratio == Array([t \in 1..n |->
                     FracDiv(cumulative_returns[t], running_max[t])])
        drawdown == Array([t \in 1..n |-> FracSub(ratio[t], Frac(1, 1))])
        max_dd_idx ==
            MinOf({t \in 1..n :
                     \A j \in 1..n : PositiveAtMost(ratio[t], ratio[j])})
        recovery_idx ==
            {t \in max_dd_idx..n : FracLeq(Frac(-1, 100), drawdown[t])}
    IN [max_drawdown |-> drawdown[max_dd_idx],
        max_drawdown_date |-> max_dd_idx,
        recovery_time_days |->
            IF recovery_idx # {} THEN Days(MinOf(recovery_idx) - max_dd_idx)
            ELSE NoRecovery,
        current_drawdown |-> drawdown[n]]

\* the longest return series offered to maximum_drawdown
MaxPeriods == 3

\* daily returns, unit 1e-3: a halving, a loss of 0.5%, none, a gain of 99%
\* and a doubling
DrawdownReturns == {-500, -5, 0, 990, 1000}

\* the frames of one asset with up to MaxPeriods of these returns
DrawdownMatrices ==
    {[columns |-> <<"TCS">>, data |-> <<s>>] :
        s \in UNION {[1..n -> DrawdownReturns] : n \in 1..MaxPeriods}}

CallDrawdown ==
    RiskCall("maximum_drawdown", [none |-> TRUE],
             IF RiskLoaded(risk_analyzer)
             THEN Return(maximum_drawdown(risk_analyzer))
             ELSE Raise("ValueError"))

NextDrawdown ==
    \/ \E m \in DrawdownMatrices : RiskLoad(m, [a \in {} |-> 0])
    \/ CallDrawdown

SpecDrawdown == Init /\ [][NextDrawdown]_vars

\* ------------------------------------------------------------------------
\* modern_portfolio_theory on given estimates
\* ------------------------------------------------------------------------

\* the estimate that load_data leaves for a frame of the assets A and B with
\* annualized means 0.10 and 0.06, the variance v for both and no covariance
TwoAssetEstimate(v) ==
    [expected_returns |-> [index |-> <<"A", "B">>, values |-> <<1000, 600>>],
     cov_matrix |-> << <<v, 0>>, <<0, v>> >>]

\* volatilities of 2%, 5%, 10% and 20%
ScenarioEstimates == {TwoAssetEstimate(v) : v \in {400, 2500, 10000, 40000}}

ScenarioTargets == TargetInputs \cup {Target(800)}

\* modern_portfolio_theory on an optimizer that holds the estimate
CallMPTWith(estimate, converges, target_return, risk_tolerance) ==
    /\ ret' = [op |-> "modern_portfolio_theory",
               args |-> [estimate |-> estimate, converges |-> converges,
                         target_return |-> target_return,
                         risk_tolerance |-> risk_tolerance],
               outcome |-> MPT(estimate.expected_returns, estimate.cov_matrix,
                               risk_free_rate_init, converges, target_return,
                               risk_tolerance)]
    /\ UNCHANGED <<returns_data, expected_returns, cov_matrix, risk_free_rate, frame,
                   solver_converges, memo, server_vars, rng>>

NextScenario ==
    \E e \in ScenarioEstimates, c \in BOOLEAN, t \in ScenarioTargets,
       r \in Tiers : CallMPTWith(e, c, t, r)

SpecScenario == Init /\ [][NextScenario]_vars

\* ------------------------------------------------------------------------
\* the calls of the optimizer, statement by statement
\* ------------------------------------------------------------------------

\* the most problem.solve calls that the model follows in one call
MaxSolves == 3

\* arguments offered to the calls that are followed statement by statement
StepMatrices == {Matrix3, MatrixFlat}
StepTargets == {NoTarget, Target(3000)}
StepTiers == {"conservative", "moderate"}
StepCaps == {[TCS |-> 2, RIL |-> 1, GOLD |-> 1],
             [TCS |-> 1, RIL |-> -1, GOLD |-> 0]}
StepViews == {NoViews, <<View("WIPRO", 1000)>>}

\* a call that got past its not-loaded check
Entered(op, args, pc) ==
    [pc |-> pc, op |-> op, args |-> args, solves |-> 0, calls |-> 0]

\* the frame after a call ended
Left(f) == [f EXCEPT !.pc = "idle"]

\* what the call in progress returns or raises
CallOutcome(f) ==
    CASE f.op = "modern_portfolio_theory" ->
             modern_portfolio_theory(f.args.target_return,
                                     f.args.risk_tolerance)
      [] f.op = "black_litterman" ->
             black_litterman(f.args.market_caps, f.args.investor_views,
                             f.args.risk_tolerance)
      [] f.op = "efficient_frontier" -> efficient_frontier(f.args.n_points)

\* lines 28-29, 130-131, 256-257: the call raises when no estimate is loaded
Begin(op, args, pc) ==
    /\ frame.pc = "idle"
    /\ IF Loaded
       THEN frame' = Entered(op, args, pc) /\ ret' = ret
       ELSE /\ frame' = Left(Entered(op, args, pc))
            /\ ret' = [op |-> op, args |-> args,
                       outcome |-> Raise("ValueError")]
    /\ UNCHANGED <<returns_data, expected_returns, cov_matrix, risk_free_rate,
                   solver_converges, memo, server_vars, rng>>

BeginMPT(target_return, risk_tolerance) ==
    Begin("modern_portfolio_theory",
          [target_return |-> target_return, risk_tolerance |-> risk_tolerance],
          "solve")

BeginBL(market_caps, investor_views, risk_tolerance) ==
    Begin("black_litterman",
          [market_caps |-> market_caps, investor_views |-> investor_views,
           risk_tolerance |-> risk_tolerance],
          "blend")

BeginFrontier(n_points) ==
    Begin("efficient_frontier", [n_points |-> n_points], "loop")

\* a statement of the call in progress that leaves the frame f
Proceed(f) ==
    /\ frame' = f
    /\ UNCHANGED <<returns_data, expected_returns, cov_matrix, risk_free_rate,
                   solver_converges, ret, memo, server_vars, rng>>

\* the call in progress ends: it returns its result or raises to its caller
Leave ==
    /\ frame.pc = "exit"
    /\ frame' = Left(frame)
    /\ ret' = [op |-> frame.op, args |-> frame.args,
               outcome |-> CallOutcome(frame)]
    /\ UNCHANGED <<returns_data, expected_returns, cov_matrix, risk_free_rate,
                   solver_converges, memo, server_vars, rng>>

\* lines 135-179 of black_litterman: an exception of the market weights or
\* of the blending goes to the handler
BlendStep ==
    /\ frame.pc = "blend"
    /\ Proceed([frame EXCEPT !.pc =
           IF DictSum(frame.args.market_caps) = 0 THEN "handler"
           ELSE IF Blend(expected_returns, cov_matrix,
                         MarketWeights(expected_returns.index,
                                       frame.args.market_caps),
                         frame.args.investor_views,
                         frame.args.risk_tolerance).raised
           THEN "handler" ELSE "solve"])

\* a solve that raises is followed by the solve again
AfterSolveRetry(f, sol) ==
    [f EXCEPT !.solves = @ + 1,
              !.pc = IF sol.kind = "raise" THEN "solve" ELSE "metrics"]

\* after problem.solve (lines 72, 199): an exception goes to the handler,
\* anything else to the statements that follow in the try block
AfterSolve(f, sol) ==
    [f EXCEPT !.solves = @ + 1,
              !.pc = IF sol.kind = "raise" THEN "handler" ELSE "metrics"]

\* the solver outcomes of the data sets and arguments of the model
MPTSolutions ==
    Table([k \in StepMatrices \X BOOLEAN \X StepTargets \X StepTiers |->
          MPTSolve(Estimates[k[1]].expected_returns.values,
                   Estimates[k[1]].cov_matrix, k[2], k[3], k[4])])

BLSolutions ==
    Table([k \in StepMatrices \X BOOLEAN \X {c \in StepCaps : DictSum(c) # 0}
              \X StepViews \X {"moderate"} |->
          BLSolveStep(Estimates[k[1]].expected_returns,
                      Estimates[k[1]].cov_matrix, k[2],
                      MarketWeights(Estimates[k[1]].expected_returns.index,
                                    k[3]),
                      k[4], k[5])])

\* what problem.solve leaves or raises in the call of the frame f
SolveOutcome(f) ==
    IF f.op = "modern_portfolio_theory"
    THEN LET k == <<returns_data, solver_converges, f.args.target_return,
                    f.args.risk_tolerance>>
         IN IF Estimated(returns_data, expected_returns, cov_matrix,
                         risk_free_rate) /\ k \in DOMAIN MPTSolutions
            THEN MPTSolutions[k]
            ELSE MPTSolve(expected_returns.values, cov_matrix,
                          solver_converges, f.args.target_return,
                          f.args.risk_tolerance)
    ELSE LET k == <<returns_data, solver_converges, f.args.market_caps,
                    f.args.investor_views, f.args.risk_tolerance>>
         IN IF Estimated(returns_data, expected_returns, cov_matrix,
                         risk_free_rate) /\ k \in DOMAIN BLSolutions
            THEN BLSolutions[k]
            ELSE BLSolveStep(expected_returns, cov_matrix, solver_converges,
                             MarketWeights(expected_returns.index,
                                           f.args.market_caps),
                             f.args.investor_views, f.args.risk_tolerance)

\* problem.solve(solver=cp.OSQP, verbose=False)
SolveStep ==
    /\ frame.pc = "solve"
    /\ frame.solves < MaxSolves
    /\ Proceed(AfterSolve(frame, SolveOutcome(frame)))

\* a result of the return statement of the try block
FromTry(outcome) == outcome.kind = "return" /\ outcome.value.status = "success"

\* the try block of the call in progress reaches its return statement
TryReturns(f) ==
    FromTry(IF f.op = "modern_portfolio_theory"
            THEN modern_portfolio_theory(f.args.target_return,
                                         f.args.risk_tolerance)
            ELSE black_litterman(f.args.market_caps, f.args.investor_views,
                                 f.args.risk_tolerance))

\* lines 74-100 and 201-228: the metrics of the try block up to its return
\* statement; the division by a zero risk goes to the handler
MetricsStep ==
    /\ frame.pc = "metrics"
    /\ Proceed([frame EXCEPT !.pc =
           IF TryReturns(frame) THEN "exit" ELSE "handler"])

\* lines 102-122 and 230-250: the handler goes to its return statement, or
\* raises in its turn; either way the call ends next
HandlerStep ==
    /\ frame.pc = "handler"
    /\ Proceed([frame EXCEPT !.pc = "exit"])

\* lines 265-275: one pass of the loop, with its modern_portfolio_theory call
LoopStep ==
    /\ frame.pc = "loop"
    /\ frame.calls < frame.args.n_points
    /\ Proceed([frame EXCEPT !.calls = @ + 1, !.solves = @ + 1])

\* lines 277-280
FrontierReturn ==
    /\ frame.pc = "loop"
    /\ frame.calls >= frame.args.n_points
    /\ Proceed([frame EXCEPT !.pc = "exit"])

\* load_data between two calls
LoadIdle(m, converges) == frame.pc = "idle" /\ LoadData(m, converges)

Statement ==
    \/ BlendStep
    \/ SolveStep
    \/ MetricsStep
    \/ HandlerStep
    \/ LoopStep
    \/ FrontierReturn
    \/ Leave

NextSteps ==
    \/ \E m \in StepMatrices, c \in BOOLEAN : LoadIdle(m, c)
    \/ \E t \in StepTargets, r \in StepTiers : BeginMPT(t, r)
    \/ \E mc \in StepCaps, iv \in StepViews : BeginBL(mc, iv, "moderate")
    \/ \E n \in 1..MaxPoints : BeginFrontier(n)
    \/ Statement

\* a call in progress goes on to its next statement
SpecSteps == Init /\ [][NextSteps]_vars /\ WF_frame(Statement)

\* ------------------------------------------------------------------------
\* Claims
\* ------------------------------------------------------------------------

\* the last call was op on an optimizer with data loaded
CalledLoaded(op) == ret.op = op /\ Loaded

\* min(mu) and max(mu) of the loaded estimate
MinMu == MinOf(SeqRange(expected_returns.values))
MaxMu == MaxOf(SeqRange(expected_returns.values))

\* what the solver of the last modern_portfolio_theory call left
LastMPTSolve ==
    MPTSolve(expected_returns.values, cov_matrix, solver_converges,
             ret.args.target_return, ret.args.risk_tolerance)

NoSolution(sol) == sol.kind = "raise" \/ sol.value = NoValue

\* C1: for every loaded return matrix with at least 2 assets and every
\* request, the weights modern_portfolio_theory returns sum to 1 and every
\* entry lies in [0, 0.4], on the solver path and on both equal-weight paths.
C1_WeightsSumToOneWithinCap ==
    (/\ CalledLoaded("modern_portfolio_theory")
     /\ Len(expected_returns.index) >= 2
     /\ ret.outcome.kind = "return")
    => LET w == ret.outcome.value.weights
       IN /\ Len(w) = Len(expected_returns.index)
          /\ SumSeq(w) = Scale
          /\ \A i \in 1..Len(w) : w[i] >= 0 /\ 10 * w[i] <= 4 * Scale

\* C2: for a target_return strictly below min(mu) or strictly above max(mu)
\* modern_portfolio_theory returns a result with status 'fallback' and does
\* not raise.
C2_TargetOutOfRangeFallsBack ==
    (/\ CalledLoaded("modern_portfolio_theory")
     /\ ret.args.target_return # NoTarget
     /\ \/ ret.args.target_return.num < MinMu * ret.args.target_return.den
        \/ ret.args.target_return.num > MaxMu * ret.args.target_return.den)
    => /\ ret.outcome.kind = "return"
       /\ ret.outcome.value.status = "fallback"

\* C3: when the solve produces no solution (infeasible, or an exception),
\* modern_portfolio_theory returns equal weights with status 'fallback' and an
\* 'error' entry; status 'success' comes only with the solver's own weights.
C3_NoSolutionIsFallback ==
    CalledLoaded("modern_portfolio_theory")
    => /\ NoSolution(LastMPTSolve)
          => /\ ret.outcome.kind = "return"
             /\ ret.outcome.value.weights =
                    EqualWeights(Len(expected_returns.index))
             /\ ret.outcome.value.status = "fallback"
             /\ "error" \in DOMAIN ret.outcome.value
       /\ (ret.outcome.kind = "return" /\ ret.outcome.value.status = "success")
          => /\ ~NoSolution(LastMPTSolve)
             /\ ret.outcome.value.weights = LastMPTSolve.value

\* C4: once data is loaded, modern_portfolio_theory returns a result carrying
\* a status for every tier, target and estimate, and no exception escapes it,
\* also when the portfolio volatility is zero.
C4_NoExceptionEscapes ==
    CalledLoaded("modern_portfolio_theory")
    => /\ ret.outcome.kind = "return"
       /\ ret.outcome.value.status \in {"success", "fallback"}

\* the analyzer a request would have if it were served alone
OwnAnalyzer(r) ==
    RiskLoadData(NoAnalyzer,
                 StockReturns(Symbols(requests[r].portfolio_weights)),
                 requests[r].portfolio_weights).ra

\* C5: when two /api/risk-analysis requests are served concurrently, in every
\* interleaving of their steps each response is computed from that request's
\* own return matrix and weights alone.
C5_ResponsesFromOwnData ==
    \A r \in Requests :
        (requests[r].pc = "done" /\ requests[r].response.code = 200)
        => /\ requests[r].response.risk_report =
                  generate_risk_report(OwnAnalyzer(r),
                                       requests[r].portfolio_value)
           /\ requests[r].response.monte_carlo_results =
                  monte_carlo_simulation(OwnAnalyzer(r),
                                         requests[r].portfolio_value)

\* C6: optimize_portfolio called with identical arguments returns identical
\* results after any two histories of earlier calls on the same object (the
\* solver behaving alike in both).
C6_ResultIndependentOfHistory ==
    (/\ ret.op = "optimize_portfolio"
     /\ memo # NoMemo
     /\ memo.args = ret.args
     /\ memo.converges = solver_converges)
    => ret.outcome = memo.outcome

\* the point of a target whose optimization genuinely succeeded
GenuinePoint(target_return) ==
    LET sol == MPTSolve(expected_returns.values, cov_matrix, solver_converges,
                        target_return, "moderate")
        result == modern_portfolio_theory(target_return, "moderate")
    IN IF ~NoSolution(sol) /\ result.kind = "return"
          /\ result.value.status = "success"
       THEN << [return |-> result.value.expected_return,
                risk |-> result.value.risk,
                sharpe_ratio |-> result.value.sharpe_ratio] >>
       ELSE << >>

RECURSIVE GenuineFrontier(_, _)
GenuineFrontier(targets, i) ==
    IF i > Len(targets) THEN << >>
    ELSE GenuinePoint(targets[i]) \o GenuineFrontier(targets, i + 1)

\* C7: efficient_frontier(n_points) evaluates n_points targets from min(mu) to
\* max(mu) in increasing order and returns, in that order, one point for each
\* target whose optimization genuinely succeeded and none for a target for
\* which equal weights were substituted.
C7_FrontierOnlyGenuinePoints ==
    CalledLoaded("efficient_frontier")
    => LET targets == TargetReturns(expected_returns, ret.args.n_points)
       IN /\ Len(targets) = ret.args.n_points
          /\ \A i \in 1..Len(targets) :
                /\ targets[i].num >= MinMu * targets[i].den
                /\ targets[i].num <= MaxMu * targets[i].den
                /\ i > 1 => targets[i].num >= targets[i - 1].num
          /\ ret.outcome.kind = "return"
          /\ ret.outcome.value.efficient_frontier =
                 GenuineFrontier(targets, 1)

\* market_caps omits an asset of the universe, has a negative value or sums
\* to zero
InvalidMarketCaps(market_caps) ==
    \/ \E a \in SeqRange(expected_returns.index) : a \notin DOMAIN market_caps
    \/ \E a \in DOMAIN market_caps : market_caps[a] < 0
    \/ DictSum(market_caps) = 0

\* C8: black_litterman fails with InvalidMarketWeights, and returns no result,
\* when market_caps omits an asset of the universe, has a negative value or
\* sums to zero.
C8_InvalidMarketCapsRejected ==
    (/\ CalledLoaded("black_litterman")
     /\ InvalidMarketCaps(ret.args.market_caps))
    => /\ ret.outcome.kind = "raise"
       /\ ret.outcome.exc = "InvalidMarketWeights"

\* the views on assets of the universe
ViewsInUniverse(investor_views) ==
    SelectSeq(investor_views,
              LAMBDA v : v.asset \in SeqRange(expected_returns.index))

\* what C9 compares of an outcome
ViewedResult(outcome) ==
    IF outcome.kind = "raise" THEN [raised |-> outcome.exc]
    ELSE [weights |-> outcome.value.weights,
          posterior_returns |->
              IF "posterior_returns" \in DOMAIN outcome.value
              THEN outcome.value.posterior_returns ELSE NoValue,
          status |-> outcome.value.status]

\* C9: a view on an asset outside the universe has no effect: no row of the
\* picking matrix is built for it, and black_litterman returns the weights,
\* posterior returns and status it returns without that view.
C9_AbsentViewIgnored ==
    (/\ CalledLoaded("black_litterman")
     /\ ViewsInUniverse(ret.args.investor_views) # ret.args.investor_views)
    => /\ Len(PickingMatrix(expected_returns.index, ret.args.investor_views))
            = Len(ViewsInUniverse(ret.args.investor_views))
       /\ ViewedResult(ret.outcome) =
              ViewedResult(black_litterman(
                  ret.args.market_caps,
                  ViewsInUniverse(ret.args.investor_views),
                  ret.args.risk_tolerance))

\* what the blending and the solve of the last black_litterman call left
LastBLSolve ==
    BLSolveStep(expected_returns, cov_matrix, solver_converges,
                MarketWeights(expected_returns.index, ret.args.market_caps),
                ret.args.investor_views, ret.args.risk_tolerance)

\* C10: when the utility solve yields no solution or a blending or solve step
\* fails, black_litterman returns the normalized market-cap weights with
\* status 'fallback'; status 'success' comes only with the solver's own
\* weights.
C10_BLNoSolutionIsFallback ==
    (/\ CalledLoaded("black_litterman")
     /\ DictSum(ret.args.market_caps) # 0)
    => /\ NoSolution(LastBLSolve)
          => /\ ret.outcome.kind = "return"
             /\ ret.outcome.value.weights =
                    MarketWeights(expected_returns.index,
                                  ret.args.market_caps)
             /\ ret.outcome.value.status = "fallback"
       /\ (ret.outcome.kind = "return" /\ ret.outcome.value.status = "success")
          => /\ ~NoSolution(LastBLSolve)
             /\ ret.outcome.value.weights = LastBLSolve.value

\* C11: for every market-cap input black_litterman accepts, the weights it
\* returns have one entry per asset, sum to 1 and lie in [0, 0.4], on the
\* solver path and on the market-cap substitution paths.
C11_BLWeightsSumToOneWithinCap ==
    (/\ CalledLoaded("black_litterman")
     /\ ret.outcome.kind = "return")
    => LET w == ret.outcome.value.weights
       IN /\ Len(w) = Len(expected_returns.index)
          /\ SumSeq(w) = Scale
          /\ \A i \in 1..Len(w) : w[i] >= 0 /\ 10 * w[i] <= 4 * Scale

\* the frame has fewer than 2 assets or fewer than 2 periods
InsufficientData(m) == Len(m.columns) < 2 \/ NPeriods(m) < 2

\* C12: load_data on a return matrix with fewer than 2 assets or fewer than 2
\* periods fails with InsufficientData and leaves no estimate derived from
\* that matrix on the optimizer.
C12_InsufficientDataRejected ==
    (/\ ret.op = "load_data"
     /\ InsufficientData(ret.args.returns_data))
    => /\ ret.outcome = Raise("InsufficientData")
       /\ expected_returns # ExpectedReturns(ret.args.returns_data)
       /\ cov_matrix # CovMatrix(ret.args.returns_data)

\* C20: in every result of modern_portfolio_theory, with status 'success' or
\* 'fallback', the allocation map holds asset i exactly when weight_i > 0.01,
\* with the value 100 * weight_i.
C20_AllocationAboveOnePercent ==
    (/\ CalledLoaded("modern_portfolio_theory")
     /\ ret.outcome.kind = "return")
    => LET w == ret.outcome.value.weights
           index == expected_returns.index
           held == {i \in 1..Len(index) : 100 * w[i] > Scale}
       IN /\ DOMAIN ret.outcome.value.allocation = {index[i] : i \in held}
          /\ \A i \in held :
                ret.outcome.value.allocation[index[i]] = 100 * w[i]

\* the last call is a historical value_at_risk that returned
HistoricalVaRReturned ==
    /\ ret.op = "value_at_risk"
    /\ ret.args.method = "historical"
    /\ ret.outcome.kind = "return"

\* C13: for every loaded return series and weights, historical
\* value_at_risk(0.99) <= historical value_at_risk(0.95), and more generally
\* the historical VaR does not increase with the confidence level: the value
\* a call returns is at least the VaR at every higher level.
C13_HistoricalVaRNonIncreasing ==
    HistoricalVaRReturned =>
        /\ FracLeq(value_at_risk(risk_analyzer, 99),
                   value_at_risk(risk_analyzer, 95))
        /\ \A c \in LevelInputs :
              c >= ret.args.confidence_level =>
                  FracLeq(value_at_risk(risk_analyzer, c), ret.outcome.value)

\* C13: a historical VaR at 95% was returned and the VaR at 99% is lower
C13_Witness ==
    /\ HistoricalVaRReturned
    /\ ret.args.confidence_level = 95
    /\ value_at_risk(risk_analyzer, 99) # ret.outcome.value
    /\ FracLeq(value_at_risk(risk_analyzer, 99), ret.outcome.value)

\* the last call is a conditional_value_at_risk that returned
CVaRReturned ==
    ret.op = "conditional_value_at_risk" /\ ret.outcome.kind = "return"

\* the periods whose portfolio return is at most the historical VaR of the
\* level of the last call
TailPeriods ==
    LET pr == calculate_portfolio_returns(risk_analyzer)
        var == value_at_risk(risk_analyzer, ret.args.confidence_level)
    IN {t \in 1..Len(pr) : FracLeq(pr[t], var)}

\* C14: for every return series and confidence level c,
\* conditional_value_at_risk(c) is the mean of all observed portfolio returns
\* that are <= the historical VaR(c), hence CVaR(c) <= VaR(c); when no
\* observation is <= VaR(c), CVaR(c) equals VaR(c).
C14_CVaRIsTailMean ==
    CVaRReturned =>
        LET pr == calculate_portfolio_returns(risk_analyzer)
            var == value_at_risk(risk_analyzer, ret.args.confidence_level)
        IN IF TailPeriods # {}
           THEN /\ ret.outcome.value =
                       FracMul(FracSumOver([t \in TailPeriods |-> pr[t]],
                                           TailPeriods),
                               Frac(1, Cardinality(TailPeriods)))
                /\ FracLeq(ret.outcome.value, var)
           ELSE ret.outcome.value = var

\* C14: a CVaR was returned that is strictly below the VaR of its level
C14_Witness ==
    /\ CVaRReturned
    /\ TailPeriods # {}
    /\ ret.outcome.value # value_at_risk(risk_analyzer,
                                         ret.args.confidence_level)

\* the last call is a stress_test that returned
StressReturned == ret.op = "stress_test" /\ ret.outcome.kind = "return"

\* the assets the analyzer holds
Held == DOMAIN risk_analyzer.portfolio_weights

\* the weighted sum of the shocks that a scenario names for held assets
WeightedShock(shocks) ==
    LET covered == Held \cap DOMAIN shocks
    IN FracSumOver([a \in covered |->
                       FracMul(risk_analyzer.portfolio_weights[a],
                               Frac(shocks[a], 100))],
                   covered)

\* C15: stress_test returns, for each named scenario, exactly the sum over
\* the held assets of normalized weight x shock: an asset the scenario names
\* but the portfolio does not hold adds nothing, a held asset the scenario
\* does not name adds 0, and a scenario that names every held asset gives the
\* full weighted sum.  The weights are the normalized ones: they sum to 1.
C15_StressTestWeightedSum ==
    StressReturned =>
        /\ FracSumOver(risk_analyzer.portfolio_weights, Held) = Frac(1, 1)
        /\ DOMAIN ret.outcome.value = DOMAIN ret.args.scenarios
        /\ \A name \in DOMAIN ret.args.scenarios :
              ret.outcome.value[name] =
                  WeightedShock(ret.args.scenarios[name])

\* C15: a stress test returned a shock that is not zero for a scenario that
\* names an asset not held and lacks an asset that is held
C15_Witness ==
    /\ StressReturned
    /\ \E name \in DOMAIN ret.args.scenarios :
          /\ DOMAIN ret.args.scenarios[name] \ Held # {}
          /\ Held \ DOMAIN ret.args.scenarios[name] # {}
          /\ ret.outcome.value[name] # Frac(0, 1)

\* the last call is a generate_risk_report that returned
ReportReturned ==
    ret.op = "generate_risk_report" /\ ret.outcome.kind = "return"

\* the report of the last call holds x under key
ReportHolds(key, x) ==
    /\ key \in DOMAIN ret.outcome.value
    /\ ret.outcome.value[key] = FracMul(x, Frac(ret.args.portfolio_value, 1))

\* C16: for every confidence level c of the confidence_levels passed to
\* generate_risk_report, the report contains VaR(c) and CVaR(c), each scaled
\* by portfolio_value; with the default levels it contains VaR and CVaR at
\* both 95% and 99%.
C16_ReportHoldsEveryLevel ==
    ReportReturned =>
        \A c \in SeqRange(ret.args.confidence_levels) :
            /\ ReportHolds("var_" \o ToString(c),
                           value_at_risk(risk_analyzer, c))
            /\ ReportHolds("cvar_" \o ToString(c),
                           conditional_value_at_risk(risk_analyzer, c))

\* the last call is a simulation with the loaded data and the arguments of
\* the simulation that was kept
SameSimulation ==
    /\ \/ ret.op = "monte_carlo_simulation"
       \/ ret.op = "value_at_risk" /\ ret.args.method = "monte_carlo"
    /\ memo # NoMemo
    /\ memo.args = [op |-> ret.op, analyzer |-> risk_analyzer,
                    args |-> ret.args]

\* C17: monte_carlo_simulation and value_at_risk(method='monte_carlo') are
\* deterministic under the fixed seed: for the same loaded data and the same
\* arguments any two calls return identical results, whatever was drawn or
\* called in between.
C17_SimulationsDeterministic ==
    SameSimulation => ret.outcome = memo.outcome

\* C17: a simulation that started from the unseeded generator was kept, and
\* a later call with the same data and arguments, which started from a
\* generator that had drawn, returned
C17_Witness ==
    /\ SameSimulation
    /\ memo.rng = Unseeded
    /\ memo.later
    /\ ret.outcome.kind = "return"

\* the last call is calculate_sortino_ratio on a loaded analyzer
SortinoCalled ==
    ret.op = "calculate_sortino_ratio" /\ RiskLoaded(risk_analyzer)

\* the negative portfolio returns of the loaded analyzer
NegativeReturns ==
    SelectSeq(calculate_portfolio_returns(risk_analyzer),
              LAMBDA x : x.num < 0)

\* C18: calculate_sortino_ratio returns +infinity whenever the downside
\* deviation (the standard deviation of the negative-return periods) is zero,
\* and in every degenerate case (no negative period, or a single one) it
\* returns a defined sentinel, not NaN and not an exception.
C18_SortinoSentinel ==
    SortinoCalled =>
        /\ ret.outcome.kind = "return"
        /\ ret.outcome.value # NaNResult
        /\ (Len(NegativeReturns) >= 2 /\ FracVar(NegativeReturns, 1).num = 0)
               => ret.outcome.value = InfResult

\* the last call is calculate_beta on a loaded analyzer
BetaCalled == ret.op = "calculate_beta" /\ RiskLoaded(risk_analyzer)

\* the market proxy of the last call: the series passed, or the mean of the
\* assets of each period
BetaMarket ==
    IF ret.args.market_returns = NoMarket
    THEN RowMeans(risk_analyzer.returns_data)
    ELSE ret.args.market_returns

\* the periods that both the portfolio and the market proxy cover
AlignedPeriods ==
    {t \in 1..NPeriods(risk_analyzer.returns_data) :
        t <= Len(BetaMarket) /\ ~IsNaN(BetaMarket[t])}

\* the excess returns over the daily risk-free rate = annual rate / 252
PortfolioExcess(t) ==
    FracSub(calculate_portfolio_returns(risk_analyzer)[t],
            Frac(ratio_risk_free_rate, 252))
MarketExcess(t) == FracSub(BetaMarket[t], Frac(ratio_risk_free_rate, 252))

\* the sum over the aligned periods of the products of the deviations of x
\* and y from their means: the covariance of x and y times the number of
\* periods
CoMoment(x(_), y(_)) ==
    LET n == Cardinality(AlignedPeriods)
        mean(z(_)) ==
            FracMul(FracSumOver([t \in AlignedPeriods |-> z(t)],
                                AlignedPeriods),
                    Frac(1, n))
        mx == mean(x)
        my == mean(y)
    IN FracSumOver([t \in AlignedPeriods |->
                       FracMul(FracSub(x(t), mx), FracSub(y(t), my))],
                   AlignedPeriods)

\* C19: calculate_beta returns exactly 1.0 whenever the variance of the
\* market-proxy excess return is zero or fewer than 2 periods are aligned
\* (none included); otherwise it returns Cov(portfolio excess, market excess)
\* / Var(market excess), the excess taken over annual rate / 252.
C19_BetaDefaultsToOne ==
    BetaCalled =>
        /\ ret.outcome.kind = "return"
        /\ IF Cardinality(AlignedPeriods) < 2
           THEN ret.outcome.value = Frac(1, 1)
           ELSE IF CoMoment(MarketExcess, MarketExcess).num = 0
           THEN ret.outcome.value = Frac(1, 1)
           ELSE ret.outcome.value =
                    FracDiv(CoMoment(PortfolioExcess, MarketExcess),
                            CoMoment(MarketExcess, MarketExcess))

\* the last call is a RiskAnalyzer.load_data that returned
RiskLoadReturned ==
    ret.op = "RiskAnalyzer.load_data" /\ ret.outcome.kind = "return"

\* the weights that calculate_portfolio_returns applies to the columns
AppliedWeights ==
    [i \in 1..Len(risk_analyzer.returns_data.columns) |->
        WeightOf(risk_analyzer, risk_analyzer.returns_data.columns[i])]

\* C21: after RiskAnalyzer.load_data with any weight map (or none), the
\* weights that calculate_portfolio_returns applies to the columns of the
\* return matrix sum to 1, a column missing from the map getting weight 0,
\* also when the map names assets that are not columns of the matrix.
C21_AppliedWeightsSumToOne ==
    RiskLoadReturned =>
        /\ FracSumOver(AppliedWeights, DOMAIN AppliedWeights) = Frac(1, 1)
        /\ \A i \in DOMAIN AppliedWeights :
              (/\ DOMAIN ret.args.portfolio_weights # {}
               /\ risk_analyzer.returns_data.columns[i]
                      \notin DOMAIN ret.args.portfolio_weights)
                  => AppliedWeights[i] = Frac(0, 1)

\* the last call is the scenario: modern_portfolio_theory(target_return=0.08,
\* risk_tolerance='moderate') on the two-asset estimate, with a solver that
\* converges
ScenarioCalled ==
    /\ ret.op = "modern_portfolio_theory"
    /\ ret.args.estimate \in ScenarioEstimates
    /\ ret.args.converges
    /\ ret.args.target_return = Target(800)
    /\ ret.args.risk_tolerance = "moderate"

\* x is y within 1e-2 of a weight, or of a return in weight units
Approximately(x, y, unit) == Abs(x - y) * 100 <= unit * Scale

\* C22: for the universe {A, B} with mu = [0.10, 0.06], equal variances, zero
\* covariance, target_return = 0.08 and tier moderate, the weights returned
\* have w_A + w_B = 1 and 0.10 w_A + 0.06 w_B approximately 0.08, both
\* approximately 0.5, as the solution of the constrained problem (sum to one,
\* long only, 40% cap, return >= target).
C22_TwoAssetScenario ==
    ScenarioCalled =>
        /\ ret.outcome.kind = "return"
        /\ LET w == ret.outcome.value.weights
               mu == ret.args.estimate.expected_returns.values
           IN /\ w[1] + w[2] = Scale
              /\ Approximately(Dot(w, mu), 800 * Scale, 10000)
              /\ Approximately(w[1], Scale \div 2, 1)
              /\ Approximately(w[2], Scale \div 2, 1)
              /\ MPTConstraints(w, mu, ret.args.estimate.cov_matrix,
                                ret.args.target_return,
                                ret.args.risk_tolerance)

Lambda2(risk_tolerance) ==
    CASE risk_tolerance = "conservative" -> 10
      [] risk_tolerance = "moderate" -> 6
      [] risk_tolerance = "aggressive" -> 3

\* black_litterman returned from its try block on a call without views
NoViewsReturned ==
    /\ CalledLoaded("black_litterman")
    /\ ret.args.investor_views = NoViews
    /\ ret.outcome.kind = "return"
    /\ ret.outcome.value.status = "success"

\* lambda * Sigma * w_market of the last black_litterman call, unit 1e-6
LastPi ==
    LET w_market == MarketWeights(expected_returns.index, ret.args.market_caps)
    IN Array([i \in 1..Len(cov_matrix) |->
          (Lambda2(ret.args.risk_tolerance) * Dot(cov_matrix[i], w_market))
              \div (2 * Scale)])

\* C24: without investor views black_litterman optimizes against
\* mu_post = pi and Sigma_post = Sigma, with pi = lambda * Sigma * w_market and
\* lambda 5, 3, 1.5 for conservative, moderate, aggressive; the returned
\* posterior_returns equal the returned equilibrium_returns.
C24_NoViewsUsesEquilibrium ==
    NoViewsReturned
    => LET value == ret.outcome.value
       IN /\ value.equilibrium_returns = LastPi
          /\ value.posterior_returns = value.equilibrium_returns
          /\ value.expected_return =
                 PortfolioReturn(value.weights, LastPi) \div 100
          /\ value.risk = PortfolioRisk(value.weights, cov_matrix)
          /\ ~NoSolution(LastBLSolve)
             => \A v \in Grid(Len(LastPi)) :
                   BLConstraints(v)
                   => Utility(value.weights, LastPi, cov_matrix, 1,
                              ret.args.risk_tolerance)
                      >= Utility(v, LastPi, cov_matrix, 1,
                                 ret.args.risk_tolerance)

\* a call without views whose solve found weights, on data whose equilibrium
\* returns differ from the sample means
C24_Witness ==
    /\ NoViewsReturned
    /\ ~NoSolution(LastBLSolve)
    /\ LastPi # Array([i \in 1..Len(LastPi) |->
                        expected_returns.values[i] * 100])
    /\ ret.outcome.value.weights #
           MarketWeights(expected_returns.index, ret.args.market_caps)

DrawdownReturned ==
    ret.op = "maximum_drawdown" /\ ret.outcome.kind = "return"

\* the compounded value path of the loaded portfolio at period t
ValuePath(t) == CumProd(calculate_portfolio_returns(risk_analyzer), t)

\* the running peak of the value path at period t
Peak(t) ==
    ValuePath(CHOOSE k \in 1..t :
                 \A j \in 1..t : PositiveAtMost(ValuePath(j), ValuePath(k)))

\* (value - running peak) / running peak at period t
DrawdownAt(t) ==
    FracMul(FracSub(ValuePath(t), Peak(t)), Frac(Peak(t).den, Peak(t).num))

\* drawdowns above -1, compared by the values they leave of the peak
NoDeeper(a, b) ==
    PositiveAtMost(FracAdd(b, Frac(1, 1)), FracAdd(a, Frac(1, 1)))

\* C25: maximum_drawdown reports as max_drawdown the minimum over all periods
\* of (value - running peak) / running peak of the compounded value path, and
\* as recovery_time_days the days from that trough to the first strictly
\* later period whose drawdown is within 1% of the peak, None when no later
\* period qualifies.
C25_DrawdownAndRecovery ==
    DrawdownReturned
    => LET value == ret.outcome.value
           n == NPeriods(risk_analyzer.returns_data)
           trough == value.max_drawdown_date
           later == {t \in (trough + 1)..n :
                        FracLeq(Frac(-1, 100), DrawdownAt(t))}
       IN /\ \E t \in 1..n : value.max_drawdown = DrawdownAt(t)
          /\ \A t \in 1..n : NoDeeper(DrawdownAt(t), value.max_drawdown)
          /\ value.max_drawdown = DrawdownAt(trough)
          /\ value.recovery_time_days =
                 IF later # {} THEN Days(MinOf(later) - trough)
                 ELSE NoRecovery

\* modern_portfolio_theory or black_litterman returned a result
ResultReturned ==
    /\ ret.op \in {"modern_portfolio_theory", "black_litterman"}
    /\ ret.outcome.kind = "return"

\* C26: in every result returned by modern_portfolio_theory and
\* black_litterman, status is 'success' or 'fallback', and an 'error' entry
\* is present exactly when status is 'fallback'.
C26_StatusAndError ==
    ResultReturned
    => /\ ret.outcome.value.status \in {"success", "fallback"}
       /\ "error" \in DOMAIN ret.outcome.value
              <=> ret.outcome.value.status = "fallback"

\* a result of the except handler, with its error entry
C26_Witness ==
    /\ ResultReturned
    /\ ret.outcome.value.status = "fallback"
    /\ "error" \in DOMAIN ret.outcome.value
    /\ ret.outcome.value.error = "SolverError"

\* C27: optimize_portfolio with an algorithm other than 'MPT' or
\* 'BLACK-LITTERMAN' (compared case-insensitively) raises ValueError and
\* leaves returns_data, expected_returns and cov_matrix exactly as they were
\* before the call, also when no data had been loaded yet.
C27_UnknownAlgorithmLeavesState ==
    [][(/\ ret'.op = "optimize_portfolio"
        /\ Upper(ret'.args.algorithm) \notin {"MPT", "BLACK-LITTERMAN"})
       => /\ ret'.outcome = Raise("ValueError")
          /\ UNCHANGED <<returns_data, expected_returns, cov_matrix>>]_vars

\* C28: RiskAnalyzer.load_data is all-or-nothing: when it fails because the
\* supplied weights sum to zero, neither returns_data nor portfolio_weights
\* is changed, so the analyzer never holds the new return matrix together
\* with the weights of an earlier load_data call.
C28_LoadDataAllOrNothing ==
    [][(/\ ret'.op = "RiskAnalyzer.load_data"
        /\ ret'.outcome.kind = "raise")
       => /\ risk_analyzer'.returns_data = risk_analyzer.returns_data
          /\ risk_analyzer'.portfolio_weights =
                 risk_analyzer.portfolio_weights]_vars

\* one of the three calls that the optimizer offers besides load_data and
\* optimize_portfolio
ReadingCalls ==
    {"modern_portfolio_theory", "black_litterman", "efficient_frontier"}

\* returns_data.mean() * 252 of column i, unit 1e-4
AnnualMean(i) ==
    (252 * SumSeq(returns_data.data[i]) * 10) \div NPeriods(returns_data)

\* returns_data.cov() * 252 of the columns i and j, unit 1e-6
AnnualCov(i, j) ==
    LET T == NPeriods(returns_data)
    IN (252 * (T * Dot(returns_data.data[i], returns_data.data[j])
               - SumSeq(returns_data.data[i]) * SumSeq(returns_data.data[j])))
          \div (T * (T - 1))

\* C29: modern_portfolio_theory, black_litterman and efficient_frontier are
\* read-only on the optimizer: they leave returns_data, expected_returns,
\* cov_matrix and risk_free_rate as the most recent load_data left them, and
\* expected_returns and cov_matrix are always the annualized (x252) sample
\* mean and sample covariance of the current returns_data.
C29_CallsAreReadOnly ==
    /\ [][ret'.op \in ReadingCalls
            => UNCHANGED <<returns_data, expected_returns, cov_matrix,
                           risk_free_rate>>]_vars
    /\ [](returns_data # NoData
            => /\ expected_returns.index = returns_data.columns
               /\ \A i \in 1..Len(returns_data.columns) :
                      /\ expected_returns.values[i] = AnnualMean(i)
                      /\ \A j \in 1..Len(returns_data.columns) :
                             cov_matrix[i][j] = AnnualCov(i, j))
    /\ [](returns_data = NoData
            => expected_returns = NoSeries /\ cov_matrix = NoValue)

\* black_litterman returned posterior returns that differ from the expected
\* returns the optimizer holds
C29_Witness ==
    /\ CalledLoaded("black_litterman")
    /\ ret.outcome.kind = "return"
    /\ ret.outcome.value.status = "success"
    /\ ret.outcome.value.posterior_returns #
           Array([i \in 1..Len(expected_returns.values) |->
               expected_returns.values[i] * 100])

\* the not-loaded check of the three calls fails
NeverLoaded == expected_returns = NoSeries \/ cov_matrix = NoValue

\* the three calls raise ValueError on a never-loaded optimizer and change no
\* state
RaisesBeforeLoad ==
    [][(NeverLoaded /\ ret'.op \in ReadingCalls)
        => /\ ret'.outcome = Raise("ValueError")
           /\ UNCHANGED <<returns_data, expected_returns, cov_matrix,
                          risk_free_rate>>]_vars

\* after load_data or optimize_portfolio the optimizer holds its estimates
\* for good, and none of the three calls raises the not-loaded ValueError
NoRaiseAfterLoad ==
    /\ [][ret'.op \in {"load_data", "optimize_portfolio"}
            => ~NeverLoaded']_vars
    /\ [][~NeverLoaded => ~NeverLoaded']_vars
    /\ [](~NeverLoaded /\ ret.op \in ReadingCalls
            => ret.outcome # Raise("ValueError"))

\* C30 as stated: on a PortfolioOptimizer on which load_data was never
\* called, modern_portfolio_theory, black_litterman and efficient_frontier
\* each raise ValueError and change no state, whereas optimize_portfolio
\* first generates and loads sample data and then returns a result; after
\* any load_data or such optimize_portfolio call none of the three raises
\* that ValueError again.
C30_AsStated ==
    /\ RaisesBeforeLoad
    /\ [][(NeverLoaded /\ ret'.op = "optimize_portfolio")
            => /\ returns_data' = SampleData
               /\ expected_returns' = ExpectedReturns(SampleData)
               /\ cov_matrix' = CovMatrix(SampleData)
               /\ ret'.outcome.kind = "return"]_vars
    /\ NoRaiseAfterLoad

\* C30, amended: as stated, with optimize_portfolio returning a result after
\* it loaded the sample data when its algorithm is 'MPT' or
\* 'BLACK-LITTERMAN' (compared case-insensitively); with any other algorithm
\* it loads the sample data and raises ValueError.
C30_NotLoadedOnlyBeforeLoad ==
    /\ RaisesBeforeLoad
    /\ [][(NeverLoaded /\ ret'.op = "optimize_portfolio")
            => /\ returns_data' = SampleData
               /\ expected_returns' = ExpectedReturns(SampleData)
               /\ cov_matrix' = CovMatrix(SampleData)
               /\ IF Upper(ret'.args.algorithm) \in {"MPT", "BLACK-LITTERMAN"}
                  THEN ret'.outcome.kind = "return"
                  ELSE ret'.outcome = Raise("ValueError")]_vars
    /\ NoRaiseAfterLoad

\* optimize_portfolio loaded the sample data, and one of the three calls
\* returned on it
C30_Witness ==
    /\ returns_data = SampleData
    /\ ret.op = "efficient_frontier"
    /\ ret.outcome.kind = "return"

====
